---- MODULE Spec2Model ----
(***************************************************************************)
(* Portfolio valuation, vesting classification, weighted allocation and    *)
(* quarterly projection of the Investments page (src/js/investments.js),   *)
(* and the allocation endpoint of the record store (src/lambda).           *)
(*                                                                         *)
(* Arithmetic.  Money is counted in integer units of 1/500 EUR, so that    *)
(* every rate of CONFIG.FX_RATES (1.0, 0.92, 0.054, 1.17) is a whole       *)
(* number of units per unit of foreign currency.  A growth factor is a     *)
(* fraction <<n, d>>; the model uses annual rates whose quarterly factor   *)
(* (1 + r/100)^(1/4) is rational, so Math.pow is computed exactly.  A      *)
(* weighted allocation is kept as a numerator over the denominator         *)
(* totalValue.  Nullable numbers that the code reads through `x || 0` are  *)
(* carried as 0; a nullable date or rate is <<>> when null.                *)
(***************************************************************************)
EXTENDS Integers, Sequences, FiniteSets, TLC

VARIABLES investments, allocations, fxRates, growthRates,
          now, includeUnvested, sliderValue, allocationView,
          statsView, tableRows, projView, allocChart, visible,
          tableView, historyView, projTable,
          store, loads, priceRefresh, created

vars == <<investments, allocations, fxRates, growthRates,
          now, includeUnvested, sliderValue, allocationView,
          statsView, tableRows, projView, allocChart, visible,
          tableView, historyView, projTable,
          store, loads, priceRefresh, created>>

\* the record store, the loadData calls and the refreshPrices call
remote == <<store, loads, priceRefresh, created>>

(***************************************************************************)
(* Bounds of the model.                                                    *)
(***************************************************************************)
MaxHoldings == 2

\* loadData calls of one page visit
MaxLoads == 2

\* createAllocation requests per behaviour
MaxCreated == 2

(***************************************************************************)
(* Generic helpers.                                                        *)
(***************************************************************************)
Null == <<>>

RECURSIVE SumSeq(_)
SumSeq(s) == IF s = <<>> THEN 0 ELSE Head(s) + SumSeq(Tail(s))

RECURSIVE SumOver(_, _)
SumOver(S, f) ==
  IF S = {} THEN 0
  ELSE LET x == CHOOSE y \in S : TRUE IN f[x] + SumOver(S \ {x}, f)

RECURSIVE GCD(_, _)
GCD(a, b) == IF b = 0 THEN a ELSE GCD(b, a % b)

Min(a, b) == IF a <= b THEN a ELSE b

Abs(x) == IF x < 0 THEN -x ELSE x

(***************************************************************************)
(* Number formatting.  A formatted percentage is the tuple <<n>> of its    *)
(* value in units of the last printed digit; the result of a division by   *)
(* zero (NaN or Infinity) is NotFinite.                                    *)
(***************************************************************************)
NotFinite == <<0, 0>>

\* <<(k * r) \div d, (k * r) % d>> for 0 <= r < d, by k additions of r
RECURSIVE timesTen(_, _, _, _, _)
timesTen(k, quot, rem, r, d) ==
  IF k = 0 THEN <<quot, rem>>
  ELSE IF rem >= d - r
       THEN timesTen(k - 1, quot + 1, rem - (d - r), r, d)
       ELSE timesTen(k - 1, quot, rem + r, r, d)

\* <<quotient, remainder>> shifted left by k decimal digits; 10 * rem is
\* formed directly where it fits the integer width
RECURSIVE shifted(_, _, _, _)
shifted(quot, rem, d, k) ==
  IF k = 0 THEN <<quot, rem>>
  ELSE LET t == IF d <= 200000000
                THEN <<(10 * rem) \div d, (10 * rem) % d>>
                ELSE timesTen(10, 0, 0, rem, d)
       IN shifted(quot * 10 + t[1], t[2], d, k - 1)

\* ((n / d) * 100).toFixed(digits)
percentToFixed(n, d, digits) ==
  IF d = 0 THEN NotFinite
  ELSE LET a == Abs(n)
           b == Abs(d)
           s == shifted(a \div b, a % b, b, digits + 2)
           m == IF s[2] >= b - s[2] THEN s[1] + 1 ELSE s[1]
       IN <<IF (n < 0) # (d < 0) THEN -m ELSE m>>

(***************************************************************************)
(* Dates.  A stored date is the tuple <<year, month, day>> of an ISO       *)
(* date-only string (month 1..12); the clock is the local wall clock       *)
(* <<year, month, day, hour>> followed by the zone's offset from UTC.      *)
(* new Date(s) of a date-only string is midnight of that day; getTime is   *)
(* counted in hours.                                                       *)
(***************************************************************************)
IsLeap(y) == (y % 4 = 0 /\ y % 100 # 0) \/ y % 400 = 0

DaysInMonth(y, m) ==
  IF m = 2 THEN (IF IsLeap(y) THEN 29 ELSE 28)
  ELSE IF m \in {4, 6, 9, 11} THEN 30 ELSE 31

\* the days of year y before the first of month m
DaysBeforeMonth(y, m) ==
  <<0, 31, 59, 90, 120, 151, 181, 212, 243, 273, 304, 334>>[m]
  + (IF m > 2 /\ IsLeap(y) THEN 1 ELSE 0)

LeapsBefore(y) == ((y - 1) \div 4) - ((y - 1) \div 100) + ((y - 1) \div 400)

DayNumber(y, m, d) == 365 * y + LeapsBefore(y) + DaysBeforeMonth(y, m) + d

\* new Date("YYYY-MM-DD").getTime(), in hours
DateTime(date) == DayNumber(date[1], date[2], date[3]) * 24

\* A clock t is <<year, month, day, hour, offset>>: the browser's local
\* wall clock and its zone's offset from UTC in hours (local = UTC + offset).
\* new Date().getTime(), in hours
NowTime(t) == DayNumber(t[1], t[2], t[3]) * 24 + t[4] - t[5]

\* new Date(year, month, day).getTime(), in hours: local midnight
LocalTime(date, t) == DateTime(date) - t[5]

\* the local calendar day of new Date("YYYY-MM-DD"), which is midnight UTC:
\* west of UTC it is still the previous day
localDate(date, t) ==
  IF t[5] >= 0 THEN date
  ELSE IF date[3] > 1 THEN <<date[1], date[2], date[3] - 1>>
  ELSE IF date[2] > 1
       THEN <<date[1], date[2] - 1, DaysInMonth(date[1], date[2] - 1)>>
  ELSE <<date[1] - 1, 12, 31>>

getFullYear(date) == date[1]

\* getMonth() is 0-based
getMonth(date) == date[2] - 1

(***************************************************************************)
(* Currency normalisation.                                                 *)
(***************************************************************************)
CONFIG_FX_RATES == [EUR |-> 500, USD |-> 460, MXN |-> 27, GBP |-> 585]

\* one unit of the reporting currency
EurUnit == CONFIG_FX_RATES.EUR

convertToEur(amount, currency, fx) ==
  IF currency = "EUR" THEN amount * EurUnit
  ELSE IF currency \in DOMAIN fx THEN amount * fx[currency]
  ELSE amount * EurUnit

(***************************************************************************)
(* Holding valuation.                                                      *)
(***************************************************************************)
currencyOf(inv) == IF inv.currency = "" THEN "EUR" ELSE inv.currency

getEuroValue(inv, fx) ==
  convertToEur(inv.quantity * inv.current_price, currencyOf(inv), fx)

getCostBasis(inv, fx) ==
  convertToEur(inv.quantity * inv.purchase_price, currencyOf(inv), fx)

RECURSIVE getTotalValue(_, _)
getTotalValue(invs, fx) ==
  IF invs = <<>> THEN 0
  ELSE getEuroValue(Head(invs), fx) + getTotalValue(Tail(invs), fx)

RECURSIVE getTotalCost(_, _)
getTotalCost(invs, fx) ==
  IF invs = <<>> THEN 0
  ELSE getCostBasis(Head(invs), fx) + getTotalCost(Tail(invs), fx)

(***************************************************************************)
(* Vesting classification.                                                 *)
(***************************************************************************)
\* variant: a holding vesting at this very instant is still unvested
isVested_strict(inv, t) ==
  IF inv.vest_date = Null THEN TRUE
  ELSE DateTime(inv.vest_date) < NowTime(t)

isVested(inv, t) ==
  IF inv.vest_date = Null THEN TRUE
  ELSE DateTime(inv.vest_date) <= NowTime(t)

(***************************************************************************)
(* Summary statistics.                                                     *)
(***************************************************************************)
\* variant: liquid means "has no vest date"
RECURSIVE liquidValueOf_noVestDate(_, _, _)
liquidValueOf_noVestDate(invs, fx, t) ==
  IF invs = <<>> THEN 0
  ELSE (IF Head(invs).vest_date = Null
        THEN getEuroValue(Head(invs), fx) ELSE 0)
       + liquidValueOf_noVestDate(Tail(invs), fx, t)

RECURSIVE liquidValueOf(_, _, _)
liquidValueOf(invs, fx, t) ==
  IF invs = <<>> THEN 0
  ELSE (IF isVested(Head(invs), t) THEN getEuroValue(Head(invs), fx) ELSE 0)
       + liquidValueOf(Tail(invs), fx, t)

updateStats(invs, fx, t) ==
  LET totalValue  == getTotalValue(invs, fx)
      totalCost   == getTotalCost(invs, fx)
      liquidValue == liquidValueOf(invs, fx, t)
  IN [totalValue    |-> totalValue,
      gainLoss      |-> totalValue - totalCost,
      liquidValue   |-> liquidValue,
      unvestedValue |-> totalValue - liquidValue,
      gainLossPct   |-> IF totalCost > 0
                        THEN percentToFixed(totalValue - totalCost,
                                            totalCost, 1)
                        ELSE <<0>>]

(***************************************************************************)
(* Projection parameters.                                                  *)
(***************************************************************************)
Horizon == 20

DefaultGrowthRate == 7

\* the k with k^4 = x
Root4(x) == CHOOSE k \in 0..x : k * k * k * k = x

\* variant: a rate of 0 is taken as unset (|| instead of != null) and
\* replaced by the default, here the largest rate of the model
growthRateOf_zeroIsUnset(id, rates) ==
  IF id \in DOMAIN rates /\ rates[id] # 0 THEN rates[id] ELSE 1500

\* this.growthRates[id] != null ? this.growthRates[id] : 7
growthRateOf(id, rates) ==
  IF id \in DOMAIN rates THEN rates[id] ELSE DefaultGrowthRate

(***************************************************************************)
(* Portfolio table.                                                        *)
(***************************************************************************)
\* variant: percent of portfolio without the guard on the total value
pctPortfolio_unguarded(value, totalValue) ==
  percentToFixed(value, totalValue, 1)

\* totalValue > 0 ? ((value / totalValue) * 100).toFixed(1) : '0.0'
pctPortfolio(value, totalValue) ==
  IF totalValue > 0 THEN percentToFixed(value, totalValue, 1) ELSE <<0>>

\* cost > 0 ? ((gainLoss / cost) * 100).toFixed(2) : '0.00'
pctReturn(gainLoss, cost) ==
  IF cost > 0 THEN percentToFixed(gainLoss, cost, 2) ELSE <<0>>

\* one <tr> of the table
tableRow(inv, rates, fx, t, totalValue) ==
  LET value == getEuroValue(inv, fx)
      cost  == getCostBasis(inv, fx)
  IN [id           |-> inv.id,
      value        |-> value,
      gainLoss     |-> value - cost,
      pctReturn    |-> pctReturn(value - cost, cost),
      pctPortfolio |-> pctPortfolio(value, totalValue),
      vested       |-> isVested(inv, t),
      growthRate   |-> growthRateOf(inv.id, rates)]

\* [...this.investments].sort((a, b) => value(b) - value(a)): stable
RECURSIVE insertByValue(_, _, _)
insertByValue(sorted, inv, fx) ==
  IF sorted = <<>> THEN <<inv>>
  ELSE IF getEuroValue(Head(sorted), fx) >= getEuroValue(inv, fx)
       THEN <<Head(sorted)>> \o insertByValue(Tail(sorted), inv, fx)
       ELSE <<inv>> \o sorted

RECURSIVE sortByValue(_, _, _)
sortByValue(sorted, rest, fx) ==
  IF rest = <<>> THEN sorted
  ELSE sortByValue(insertByValue(sorted, Head(rest), fx), Tail(rest), fx)

\* the table body and the footer totals written by renderPortfolioTable
renderPortfolioTable(invs, rates, fx, t) ==
  LET totalValue == getTotalValue(invs, fx)
      totalCost  == getTotalCost(invs, fx)
      sorted     == sortByValue(<<>>, invs, fx)
  IN [rows           |-> [i \in 1..Len(sorted) |->
                            tableRow(sorted[i], rates, fx, t, totalValue)],
      totalValue     |-> totalValue,
      totalGainLoss  |-> totalValue - totalCost,
      totalReturnPct |-> pctReturn(totalValue - totalCost, totalCost)]

(***************************************************************************)
(* Projection.                                                             *)
(***************************************************************************)

\* 1 + quarterlyRate = Math.pow(1 + rate / 100, 0.25), as a fraction <<n, d>>
quarterlyFactor(rate) ==
  LET g == GCD(100 + rate, 100)
  IN <<Root4((100 + rate) \div g), Root4(100 \div g)>>

currentQuarterOf(t) == getMonth(t) \div 3

vestQuarterOffset(inv, t) ==
  IF inv.vest_date # Null
  THEN LET vestDate == localDate(inv.vest_date, t)
           yDiff == getFullYear(vestDate) - getFullYear(t)
           qDiff == (getMonth(vestDate) \div 3) - currentQuarterOf(t)
       IN yDiff * 4 + qDiff
  ELSE -1

\* the per-holding tracking record built by the map at the top of
\* calculateProjection
projHolding(inv, rates, fx, t) ==
  [value             |-> getEuroValue(inv, fx),
   factor            |-> quarterlyFactor(growthRateOf(inv.id, rates)),
   vested            |-> isVested(inv, t),
   vestQuarterOffset |-> vestQuarterOffset(inv, t)]

\* variant: the quarterly factor divides instead of multiplying
grownValue_discounted(h, q) ==
  (h.value * (h.factor[2] ^ q)) \div (h.factor[1] ^ q)

\* variant: simple interest, the quarterly rate is added q times
grownValue_simpleInterest(h, q) ==
  (h.value * (h.factor[2] + q * (h.factor[1] - h.factor[2])))
    \div h.factor[2]

\* h.value * Math.pow(1 + h.quarterlyRate, q)
grownValue(h, q) == (h.value * (h.factor[1] ^ q)) \div (h.factor[2] ^ q)

\* variant: the holding turns liquid one period after its vesting quarter
isVestedByQ_strict(h, q) ==
  h.vested \/ (h.vestQuarterOffset >= 0 /\ q > h.vestQuarterOffset)

isVestedByQ(h, q) ==
  h.vested \/ (h.vestQuarterOffset >= 0 /\ q >= h.vestQuarterOffset)

RECURSIVE liquidTotal(_, _)
liquidTotal(hs, q) ==
  IF hs = <<>> THEN 0
  ELSE (IF isVestedByQ(Head(hs), q) THEN grownValue(Head(hs), q) ELSE 0)
       + liquidTotal(Tail(hs), q)

\* variant: the unvested total ignores the vesting offset
RECURSIVE unvestedTotal_ignoresOffset(_, _)
unvestedTotal_ignoresOffset(hs, q) ==
  IF hs = <<>> THEN 0
  ELSE (IF Head(hs).vested THEN 0 ELSE grownValue(Head(hs), q))
       + unvestedTotal_ignoresOffset(Tail(hs), q)

RECURSIVE unvestedTotal(_, _)
unvestedTotal(hs, q) ==
  IF hs = <<>> THEN 0
  ELSE (IF isVestedByQ(Head(hs), q) THEN 0 ELSE grownValue(Head(hs), q))
       + unvestedTotal(Tail(hs), q)

\* variant: the yearly cell ignores the include-unvested checkbox
projPush_ignoresToggle(acc, absYear, absQ, liq, unv, incl) ==
  LET fresh == acc.cur = Null \/ acc.cur[1].year # absYear
      yd    == IF fresh /\ acc.cur # Null
               THEN Append(acc.yearlyData, acc.cur[1]) ELSE acc.yearlyData
      base  == IF fresh
               THEN [year |-> absYear, quarters |-> <<Null, Null, Null, Null>>]
               ELSE acc.cur[1]
      cell  == liq + unv
  IN [labels       |-> Append(acc.labels, <<absQ + 1, absYear>>),
      liquid       |-> Append(acc.liquid, liq),
      withUnvested |-> Append(acc.withUnvested, liq + unv),
      yearlyData   |-> yd,
      cur          |-> <<[base EXCEPT !.quarters[absQ + 1] = <<cell>>]>>]

\* the tail of one iteration of the for loop over q: the pushes and the
\* yearly tracking.  acc carries the four result arrays and currentYearData
\* (Null before the first iteration, <<record>> after)
projPush(acc, absYear, absQ, liq, unv, incl) ==
  LET fresh == acc.cur = Null \/ acc.cur[1].year # absYear
      yd    == IF fresh /\ acc.cur # Null
               THEN Append(acc.yearlyData, acc.cur[1]) ELSE acc.yearlyData
      base  == IF fresh
               THEN [year |-> absYear, quarters |-> <<Null, Null, Null, Null>>]
               ELSE acc.cur[1]
      cell  == IF incl THEN liq + unv ELSE liq
  IN [labels       |-> Append(acc.labels, <<absQ + 1, absYear>>),
      liquid       |-> Append(acc.liquid, liq),
      withUnvested |-> Append(acc.withUnvested, liq + unv),
      yearlyData   |-> yd,
      cur          |-> <<[base EXCEPT !.quarters[absQ + 1] = <<cell>>]>>]

\* one iteration of the for loop over q
projStep(acc, hs, q, incl, t) ==
  projPush(acc,
           getFullYear(t) + ((currentQuarterOf(t) + q) \div 4),
           (currentQuarterOf(t) + q) % 4,
           liquidTotal(hs, q), unvestedTotal(hs, q), incl)

\* variant: the loop stops before the last period (q < 20)
RECURSIVE projLoop_exclusive(_, _, _, _, _)
projLoop_exclusive(acc, hs, q, incl, t) ==
  IF q >= Horizon THEN acc
  ELSE projLoop_exclusive(projStep(acc, hs, q, incl, t), hs, q + 1, incl, t)

RECURSIVE projLoop(_, _, _, _, _)
projLoop(acc, hs, q, incl, t) ==
  IF q > Horizon THEN acc
  ELSE projLoop(projStep(acc, hs, q, incl, t), hs, q + 1, incl, t)

\* variant: without holdings the projection returns early with no periods
calculateProjection_emptyEarlyReturn(invs, rates, fx, incl, t) ==
  IF Len(invs) = 0
  THEN [labels |-> <<>>, liquid |-> <<>>, withUnvested |-> <<>>,
        yearlyData |-> <<>>]
  ELSE LET hs  == [i \in 1..Len(invs) |->
                     projHolding(invs[i], rates, fx, t)]
           acc == projLoop([labels |-> <<>>, liquid |-> <<>>,
                            withUnvested |-> <<>>, yearlyData |-> <<>>,
                            cur |-> Null], hs, 0, incl, t)
       IN [labels       |-> acc.labels,
           liquid       |-> acc.liquid,
           withUnvested |-> acc.withUnvested,
           yearlyData   |-> Append(acc.yearlyData, acc.cur[1])]

calculateProjection(invs, rates, fx, incl, t) ==
  LET hs  == [i \in 1..Len(invs) |-> projHolding(invs[i], rates, fx, t)]
      acc == projLoop([labels |-> <<>>, liquid |-> <<>>, withUnvested |-> <<>>,
                       yearlyData |-> <<>>, cur |-> Null], hs, 0, incl, t)
  IN [labels       |-> acc.labels,
      liquid       |-> acc.liquid,
      withUnvested |-> acc.withUnvested,
      yearlyData   |-> IF acc.cur # Null
                       THEN Append(acc.yearlyData, acc.cur[1])
                       ELSE acc.yearlyData]

(***************************************************************************)
(* Projection table.  A year-end value is Null (undefined) or <<value>>;   *)
(* a year-over-year cell is a record whose kind is "baseline",             *)
(* "placeholder" (the '-' cell) or "percent", the latter with the          *)
(* formatted percentage in tenths.                                         *)
(***************************************************************************)
\* [...quarters].reverse().find(v => v !== null)
yearEndOf(quarters) ==
  LET filled == {k \in 1..4 : quarters[k] # Null}
  IN IF filled = {} THEN Null
     ELSE quarters[CHOOSE k \in filled : \A j \in filled : j <= k]

\* variant: the first year is compared with itself and shows 0.0 percent
yoyCell_firstYearZero(yearlyData, idx) ==
  LET yearEnd == yearEndOf(yearlyData[idx].quarters)
      prevEnd == IF idx > 1 THEN yearEndOf(yearlyData[idx - 1].quarters)
                 ELSE yearEnd
  IN IF prevEnd # Null /\ prevEnd[1] > 0 /\ yearEnd # Null /\ yearEnd[1] # 0
     THEN [kind  |-> "percent",
           value |-> percentToFixed(yearEnd[1] - prevEnd[1],
                                    prevEnd[1], 1)[1]]
     ELSE [kind |-> "placeholder", value |-> 0]

\* the year-over-year cell of row idx (1-based)
yoyCell(yearlyData, idx) ==
  IF idx > 1
  THEN LET yearEnd == yearEndOf(yearlyData[idx].quarters)
           prevEnd == yearEndOf(yearlyData[idx - 1].quarters)
       IN IF prevEnd # Null /\ prevEnd[1] > 0
             /\ yearEnd # Null /\ yearEnd[1] # 0
          THEN [kind  |-> "percent",
                value |-> percentToFixed(yearEnd[1] - prevEnd[1],
                                         prevEnd[1], 1)[1]]
          ELSE [kind |-> "placeholder", value |-> 0]
  ELSE [kind |-> "baseline", value |-> 0]

\* the rows written by renderProjectionTable; no row stands for "No data"
renderProjectionTable(data) ==
  [idx \in 1..Len(data.yearlyData) |->
     [year     |-> data.yearlyData[idx].year,
      quarters |-> data.yearlyData[idx].quarters,
      yearEnd  |-> yearEndOf(data.yearlyData[idx].quarters),
      yoy      |-> yoyCell(data.yearlyData, idx)]]

(***************************************************************************)
(* Weighted allocations.  An allocation record carries the id of its       *)
(* holding (0 when the relation is empty); ids have equal length, so       *)
(* String.includes is equality.  The accumulator `weighted` is the list of *)
(* <<category, numerator>> pairs in insertion order; a percentage is       *)
(* numerator / totalValue.                                                 *)
(***************************************************************************)
categoryOf(a) == IF a.category = "" THEN "Other" ELSE a.category

\* weighted[cat] = (weighted[cat] || 0) + v
addWeighted(weighted, cat, v) ==
  IF \E i \in 1..Len(weighted) : weighted[i][1] = cat
  THEN [i \in 1..Len(weighted) |->
          IF weighted[i][1] = cat
          THEN <<cat, weighted[i][2] + v>> ELSE weighted[i]]
  ELSE Append(weighted, <<cat, v>>)

\* variant: the filter forgets the dimension
invAllocationsOf_anyType(inv, allocs, type) ==
  SelectSeq(allocs, LAMBDA a :
    a.investment # 0 /\ a.investment = inv.id)

\* variant: the filter forgets the holding
invAllocationsOf_anyHolding(inv, allocs, type) ==
  SelectSeq(allocs, LAMBDA a : a.allocation_type = type)

invAllocationsOf(inv, allocs, type) ==
  SelectSeq(allocs, LAMBDA a :
    a.allocation_type = type /\ a.investment # 0 /\ a.investment = inv.id)

RECURSIVE addAllocations(_, _, _)
addAllocations(weighted, invAllocs, invValue) ==
  IF invAllocs = <<>> THEN weighted
  ELSE addAllocations(
         addWeighted(weighted, categoryOf(Head(invAllocs)),
                     invValue * Head(invAllocs).percentage),
         Tail(invAllocs), invValue)

\* variant: Unclassified receives the weight as a fraction, not a percentage
weighInvestment_fraction(weighted, inv, allocs, type, fx) ==
  LET invValue       == getEuroValue(inv, fx)
      invAllocations == invAllocationsOf(inv, allocs, type)
  IN IF Len(invAllocations) = 0
     THEN addWeighted(weighted, "Unclassified", invValue)
     ELSE addAllocations(weighted, invAllocations, invValue)

\* variant: what a holding leaves undeclared is added to Unclassified
weighInvestment_redistributes(weighted, inv, allocs, type, fx) ==
  LET invValue       == getEuroValue(inv, fx)
      invAllocations == invAllocationsOf(inv, allocs, type)
      declared       == SumSeq([k \in 1..Len(invAllocations) |->
                                  invAllocations[k].percentage])
  IN IF Len(invAllocations) = 0
     THEN addWeighted(weighted, "Unclassified", invValue * 100)
     ELSE IF declared < 100
          THEN addWeighted(addAllocations(weighted, invAllocations, invValue),
                           "Unclassified", invValue * (100 - declared))
          ELSE addAllocations(weighted, invAllocations, invValue)

\* the body of this.investments.forEach in calculateWeightedAllocations
weighInvestment(weighted, inv, allocs, type, fx) ==
  LET invValue       == getEuroValue(inv, fx)
      invAllocations == invAllocationsOf(inv, allocs, type)
  IN IF Len(invAllocations) = 0
     THEN addWeighted(weighted, "Unclassified", invValue * 100)
     ELSE addAllocations(weighted, invAllocations, invValue)

RECURSIVE weighAll(_, _, _, _, _)
weighAll(weighted, invs, allocs, type, fx) ==
  IF invs = <<>> THEN weighted
  ELSE weighAll(weighInvestment(weighted, Head(invs), allocs, type, fx),
                Tail(invs), allocs, type, fx)

\* variant: a contribution of exactly 0.1 passes the filter
aboveThreshold_inclusive(num, totalValue) == num * 10 >= totalValue

\* v > 0.1, with v = numerator / totalValue
aboveThreshold(num, totalValue) == num * 10 > totalValue

\* Array.prototype.sort((a, b) => b[1] - a[1]): stable, descending
RECURSIVE insertDesc(_, _)
insertDesc(sorted, e) ==
  IF sorted = <<>> THEN <<e>>
  ELSE IF Head(sorted)[2] >= e[2]
       THEN <<Head(sorted)>> \o insertDesc(Tail(sorted), e)
       ELSE <<e>> \o sorted

RECURSIVE sortDesc(_, _)
sortDesc(sorted, rest) ==
  IF rest = <<>> THEN sorted
  ELSE sortDesc(insertDesc(sorted, Head(rest)), Tail(rest))

calculateWeightedAllocations(type, invs, allocs, fx) ==
  LET totalValue == getTotalValue(invs, fx)
  IN IF totalValue = 0
     THEN [labels |-> <<>>, values |-> <<>>, denom |-> 1]
     ELSE LET weighted == weighAll(<<>>, invs, allocs, type, fx)
              kept     == SelectSeq(weighted,
                            LAMBDA e : aboveThreshold(e[2], totalValue))
              sorted   == sortDesc(<<>>, kept)
          IN [labels |-> [i \in 1..Len(sorted) |-> sorted[i][1]],
              values |-> [i \in 1..Len(sorted) |-> sorted[i][2]],
              denom  |-> totalValue]

(***************************************************************************)
(* Value history.  The cursor is the pair <<year, month>> (month 1..12) of *)
(* a first day of a month; a label is the cursor it was printed from.      *)
(***************************************************************************)
\* the holding with the smallest purchase_date, the first of them on a tie
RECURSIVE earliestOf(_, _)
earliestOf(best, rest) ==
  IF rest = <<>> THEN best
  ELSE earliestOf(IF DateTime(Head(rest).purchase_date)
                       < DateTime(best.purchase_date)
                  THEN Head(rest) ELSE best,
                  Tail(rest))

\* cursor.setMonth(cursor.getMonth() + 1)
nextMonth(cursor) ==
  IF cursor[2] = 12 THEN <<cursor[1] + 1, 1>> ELSE <<cursor[1], cursor[2] + 1>>

\* new Date(year, month + 1, 0): the last day of the cursor's month
endOfMonth(cursor) ==
  <<cursor[1], cursor[2], DaysInMonth(cursor[1], cursor[2])>>

\* the body of this.investments.forEach inside the while loop
RECURSIVE monthValue(_, _, _, _)
monthValue(cursor, invs, fx, t) ==
  IF invs = <<>> THEN 0
  ELSE LET inv == Head(invs)
           isCurrentMonth == cursor[1] = getFullYear(t)
                             /\ cursor[2] - 1 = getMonth(t)
       IN (IF inv.purchase_date # Null
              /\ DateTime(inv.purchase_date)
                   <= LocalTime(endOfMonth(cursor), t)
           THEN (IF isCurrentMonth THEN getEuroValue(inv, fx)
                 ELSE getCostBasis(inv, fx))
           ELSE 0)
          + monthValue(cursor, Tail(invs), fx, t)

\* variant: the loop stops before the current month
RECURSIVE historyLoop_exclusive(_, _, _, _, _)
historyLoop_exclusive(acc, cursor, invs, fx, t) ==
  IF LocalTime(<<cursor[1], cursor[2], 1>>, t) > NowTime(t)
     \/ (cursor[1] = getFullYear(t) /\ cursor[2] - 1 = getMonth(t))
  THEN acc
  ELSE historyLoop_exclusive(
         [labels |-> Append(acc.labels, cursor),
          values |-> Append(acc.values, monthValue(cursor, invs, fx, t))],
         nextMonth(cursor), invs, fx, t)

\* while (cursor <= now) { ... }
RECURSIVE historyLoop(_, _, _, _, _)
historyLoop(acc, cursor, invs, fx, t) ==
  IF LocalTime(<<cursor[1], cursor[2], 1>>, t) > NowTime(t) THEN acc
  ELSE historyLoop(
         [labels |-> Append(acc.labels, cursor),
          values |-> Append(acc.values, monthValue(cursor, invs, fx, t))],
         nextMonth(cursor), invs, fx, t)

calculateValueHistory(invs, fx, t) ==
  IF Len(invs) = 0 THEN [labels |-> <<>>, values |-> <<>>]
  ELSE LET dated == SelectSeq(invs, LAMBDA inv : inv.purchase_date # Null)
       IN IF Len(dated) = 0 THEN [labels |-> <<>>, values |-> <<>>]
          ELSE LET earliest ==
                     localDate(earliestOf(Head(dated), Tail(dated))
                                 .purchase_date, t)
                   acc == historyLoop([labels |-> <<>>, values |-> <<>>],
                                      <<earliest[1], earliest[2]>>,
                                      invs, fx, t)
               IN IF Len(acc.values) > 0
                  THEN [labels |-> acc.labels,
                        values |-> [acc.values EXCEPT ![Len(acc.values)] =
                                      getTotalValue(invs, fx)]]
                  ELSE acc

(***************************************************************************)
(* Rendering.  A view variable holds what the last render wrote: Null      *)
(* before the first render, <<data>> afterwards.                           *)
(***************************************************************************)
ShownByRefresh ==
  {"stats-container", "portfolio-section", "charts-section",
   "projections-section"}

idsOf(invs) == {invs[i].id : i \in 1..Len(invs)}

\* this.charts.allocation after renderAllocationChart
renderAllocationChart(type, invs, allocs, fx) ==
  LET data == calculateWeightedAllocations(type, invs, allocs, fx)
  IN IF Len(data.labels) = 0 THEN Null ELSE <<data>>

\* this.charts.valueHistory after renderValueHistoryChart: the old chart is
\* destroyed, and left so when the history is empty
renderValueHistoryChart(invs, fx, t) ==
  LET data == calculateValueHistory(invs, fx, t)
  IN IF Len(data.labels) = 0 THEN Null ELSE <<data>>

\* variant: the projection is computed once and then reused
renderProjection_cached(invs, rates, fx, incl, t) ==
  IF projView # Null THEN projView
  ELSE <<calculateProjection(invs, rates, fx, incl, t)>>

\* the data handed to renderProjectionChart and renderProjectionTable
renderProjection(invs, rates, fx, incl, t) ==
  <<calculateProjection(invs, rates, fx, incl, t)>>

\* renderProjection() on the given inputs: the chart and the table are
\* drawn from the one result
drawProjection(invs, rates, fx, incl) ==
  /\ projView' = renderProjection(invs, rates, fx, incl, now)
  /\ projTable' = <<renderProjectionTable(projView'[1])>>

\* refresh() on the given snapshot, rates and FX table, with shown the
\* elements visible before the call
refresh(invs, allocs, rates, fx, shown) ==
  /\ statsView' = <<updateStats(invs, fx, now)>>
  /\ tableRows' = idsOf(invs)
  /\ tableView' = <<renderPortfolioTable(invs, rates, fx, now)>>
  /\ allocChart' = renderAllocationChart(allocationView, invs, allocs, fx)
  /\ historyView' = renderValueHistoryChart(invs, fx, now)
  /\ drawProjection(invs, rates, fx, includeUnvested)
  /\ visible' = shown \cup ShownByRefresh

(***************************************************************************)
(* Event handlers of the page.                                             *)
(***************************************************************************)
\* parseFloat(input.value) || CONFIG.FX_RATES[c]; an input of 0 stands for
\* every falsy parse (0, NaN)
fxInput(v, c) == IF v # 0 THEN v ELSE CONFIG_FX_RATES[c]

\* what the user types into the three FX inputs before clicking apply-fx
FxInputsValuation == [USD : {0, 500}, GBP : {0, 600}, MXN : {0}]

FxInputsAllocation == [USD : {0}, GBP : {0}, MXN : {0, 54}]

GrowthRates == {0, 1500}

AllocationTypes == {"industry", "geography"}

\* the table after the growth sliders of the rows in ids were set to rate
withSliders(view, ids, rate) ==
  IF view = Null THEN Null
  ELSE <<[view[1] EXCEPT !.rows =
            [i \in 1..Len(view[1].rows) |->
               IF view[1].rows[i].id \in ids
               THEN [view[1].rows[i] EXCEPT !.growthRate = rate]
               ELSE view[1].rows[i]]]>>

\* setupEventHandlers has run: init() installs the handlers and starts the
\* first loadData in one synchronous step
handlersInstalled == Len(loads) >= 1

\* click on apply-fx
ApplyFx(in) ==
  /\ handlersInstalled
  /\ fxRates' = [fxRates EXCEPT !.USD = fxInput(in.USD, "USD"),
                                !.GBP = fxInput(in.GBP, "GBP"),
                                !.MXN = fxInput(in.MXN, "MXN")]
  /\ refresh(investments, allocations, growthRates, fxRates', visible)
  /\ UNCHANGED <<investments, allocations, growthRates, now,
                 includeUnvested, sliderValue, allocationView>>
  /\ UNCHANGED remote

\* change event of an allocation-view radio button
AllocationViewChange(type) ==
  /\ handlersInstalled
  /\ allocationView' = type
  /\ allocChart' = renderAllocationChart(type, investments, allocations,
                                         fxRates)
  /\ UNCHANGED <<investments, allocations, fxRates, growthRates, now,
                 includeUnvested, sliderValue, statsView, tableRows,
                 projView, visible, tableView, historyView, projTable>>
  /\ UNCHANGED remote

\* variant: holdings with a stored annual_growth_rate keep their rate
GlobalSlider_keepsOverrides(rate) ==
  /\ handlersInstalled
  /\ sliderValue' = rate
  /\ growthRates' = [id \in DOMAIN growthRates \cup idsOf(investments) |->
                       IF \E k \in 1..Len(investments) :
                            /\ investments[k].id = id
                            /\ investments[k].annual_growth_rate = Null
                       THEN rate
                       ELSE growthRates[id]]
  /\ tableView' = withSliders(tableView, tableRows, rate)
  /\ drawProjection(investments, growthRates', fxRates, includeUnvested)
  /\ UNCHANGED <<investments, allocations, fxRates, now, includeUnvested,
                 allocationView, statsView, tableRows, allocChart, visible,
                 historyView>>
  /\ UNCHANGED remote

\* input event of the "Set All" slider
GlobalSlider(rate) ==
  /\ handlersInstalled
  /\ sliderValue' = rate
  /\ growthRates' = [id \in DOMAIN growthRates \cup idsOf(investments) |->
                       IF id \in idsOf(investments) THEN rate
                       ELSE growthRates[id]]
  /\ tableView' = withSliders(tableView, tableRows, rate)
  /\ drawProjection(investments, growthRates', fxRates, includeUnvested)
  /\ UNCHANGED <<investments, allocations, fxRates, now, includeUnvested,
                 allocationView, statsView, tableRows, allocChart, visible,
                 historyView>>
  /\ UNCHANGED remote

\* input event of the slider in the table row of holding id
InvSlider(id, rate) ==
  /\ id \in tableRows
  /\ "portfolio-section" \in visible
  /\ growthRates' = [i \in DOMAIN growthRates \cup {id} |->
                       IF i = id THEN rate ELSE growthRates[i]]
  /\ tableView' = withSliders(tableView, {id}, rate)
  /\ drawProjection(investments, growthRates', fxRates, includeUnvested)
  /\ UNCHANGED <<investments, allocations, fxRates, now, includeUnvested,
                 sliderValue, allocationView, statsView, tableRows,
                 allocChart, visible, historyView>>
  /\ UNCHANGED remote

\* change event of the include-unvested checkbox
ToggleUnvested ==
  /\ handlersInstalled
  /\ includeUnvested' = ~includeUnvested
  /\ drawProjection(investments, growthRates, fxRates, includeUnvested')
  /\ UNCHANGED <<investments, allocations, fxRates, growthRates, now,
                 sliderValue, allocationView, statsView, tableRows,
                 allocChart, visible, tableView, historyView>>
  /\ UNCHANGED remote

(***************************************************************************)
(* Loading.  A snapshot is what the record store answers to the two        *)
(* requests of one loadData call (they are served together); a loadData    *)
(* call is "sent" until the store has answered, "served" until the         *)
(* response is delivered, then "done", or "failed" when the request        *)
(* rejects.  priceRefresh is the refreshPrices call: idle, awaiting        *)
(* API.updatePrices ("updating"), or awaiting its loadData ("loading").    *)
(***************************************************************************)
Snapshot(invs, allocs) == [investments |-> invs, allocations |-> allocs]

HiddenByLoad ==
  {"stats-container", "portfolio-section", "charts-section", "empty-state",
   "alert-container"}

Idle == [phase |-> "idle", load |-> 0]

inFlight(n) == loads[n].state \in {"sent", "served"}

\* loadData up to its await, with shown the elements visible before the call
startLoad(shown) ==
  /\ loads' = Append(loads, [state |-> "sent", data |-> Null])
  /\ visible' = (shown \ HiddenByLoad) \cup {"loading-state"}

\* refreshPrices resumes after the loadData call n it awaits has returned
afterLoad(n) ==
  IF priceRefresh.phase = "loading" /\ priceRefresh.load = n
  THEN Idle ELSE priceRefresh

\* variant: a rate of 0 stored with the holding is taken as missing
loadedRates_falsy(invs, rates, defaultRate) ==
  [id \in DOMAIN rates \cup idsOf(invs) |->
     IF \E i \in 1..Len(invs) : invs[i].id = id
     THEN LET inv == CHOOSE x \in {invs[i] : i \in 1..Len(invs)} : x.id = id
          IN IF inv.annual_growth_rate # Null /\ inv.annual_growth_rate[1] # 0
             THEN inv.annual_growth_rate[1] ELSE defaultRate
     ELSE rates[id]]

\* growthRates after the forEach of loadData
loadedRates(invs, rates, defaultRate) ==
  [id \in DOMAIN rates \cup idsOf(invs) |->
     IF \E i \in 1..Len(invs) : invs[i].id = id
     THEN LET inv == CHOOSE x \in {invs[i] : i \in 1..Len(invs)} : x.id = id
          IN IF inv.annual_growth_rate # Null
             THEN inv.annual_growth_rate[1] ELSE defaultRate
     ELSE rates[id]]

\* init(): the handlers are installed and the first loadData is started
InitPage ==
  /\ loads = <<>>
  /\ startLoad(visible)
  /\ UNCHANGED <<investments, allocations, fxRates, growthRates, now,
                 includeUnvested, sliderValue, allocationView, statsView,
                 tableRows, projView, allocChart, tableView, historyView,
                 projTable, store, priceRefresh>>
  /\ UNCHANGED created

\* the record store answers the requests of loadData call n
LoadServe(n) ==
  /\ n \in 1..Len(loads)
  /\ loads[n].state = "sent"
  /\ loads' = [loads EXCEPT ![n] = [state |-> "served", data |-> <<store>>]]
  /\ UNCHANGED <<investments, allocations, fxRates, growthRates, now,
                 includeUnvested, sliderValue, allocationView, statsView,
                 tableRows, projView, allocChart, visible, tableView,
                 historyView, projTable, store, priceRefresh>>
  /\ UNCHANGED created

\* variant: the responses replace the holdings but not the allocations
LoadResolve_keepsAllocations(n) ==
  /\ n \in 1..Len(loads)
  /\ loads[n].state = "served"
  /\ LET snap  == loads[n].data[1]
         rates == loadedRates(snap.investments, growthRates, sliderValue)
     IN /\ investments' = snap.investments
        /\ allocations' = allocations
        /\ growthRates' = rates
        /\ IF Len(snap.investments) = 0
           THEN /\ visible' = (visible \ {"loading-state"})
                                \cup {"empty-state"}
                /\ UNCHANGED <<statsView, tableRows, tableView, allocChart,
                               historyView, projView, projTable>>
           ELSE refresh(snap.investments, allocations, rates, fxRates,
                        visible \ {"loading-state"})
  /\ loads' = [loads EXCEPT ![n].state = "done"]
  /\ priceRefresh' = afterLoad(n)
  /\ UNCHANGED <<fxRates, now, includeUnvested, sliderValue, allocationView,
                 store>>
  /\ UNCHANGED created

\* loadData call n resumes with the responses: lines 121-137
LoadResolve(n) ==
  /\ n \in 1..Len(loads)
  /\ loads[n].state = "served"
  /\ LET snap  == loads[n].data[1]
         rates == loadedRates(snap.investments, growthRates, sliderValue)
     IN /\ investments' = snap.investments
        /\ allocations' = snap.allocations
        /\ growthRates' = rates
        /\ IF Len(snap.investments) = 0
           THEN /\ visible' = (visible \ {"loading-state"})
                                \cup {"empty-state"}
                /\ UNCHANGED <<statsView, tableRows, tableView, allocChart,
                               historyView, projView, projTable>>
           ELSE refresh(snap.investments, snap.allocations, rates, fxRates,
                        visible \ {"loading-state"})
  /\ loads' = [loads EXCEPT ![n].state = "done"]
  /\ priceRefresh' = afterLoad(n)
  /\ UNCHANGED <<fxRates, now, includeUnvested, sliderValue, allocationView,
                 store>>
  /\ UNCHANGED created

\* a request of loadData call n rejects: the catch block
LoadFail(n) ==
  /\ n \in 1..Len(loads)
  /\ inFlight(n)
  /\ loads' = [loads EXCEPT ![n] = [state |-> "failed", data |-> Null]]
  /\ visible' = (visible \ {"loading-state"}) \cup {"alert-container"}
  /\ priceRefresh' = afterLoad(n)
  /\ UNCHANGED <<investments, allocations, fxRates, growthRates, now,
                 includeUnvested, sliderValue, allocationView, statsView,
                 tableRows, projView, allocChart, tableView, historyView,
                 projTable, store>>
  /\ UNCHANGED created

\* click on refresh-prices; the button is disabled while a call is running
RefreshPricesClick ==
  /\ handlersInstalled
  /\ priceRefresh.phase = "idle"
  /\ Len(loads) < MaxLoads
  /\ priceRefresh' = [phase |-> "updating", load |-> 0]
  /\ UNCHANGED <<investments, allocations, fxRates, growthRates, now,
                 includeUnvested, sliderValue, allocationView, statsView,
                 tableRows, projView, allocChart, visible, tableView,
                 historyView, projTable, store, loads>>
  /\ UNCHANGED created

\* API.updatePrices resolves, having left snap in the record store (a
\* price refresh creates and deletes no holding): the alert is shown and
\* loadData is started, which hides the alert again
UpdatePricesDone(snap) ==
  /\ priceRefresh.phase = "updating"
  /\ idsOf(snap.investments) = idsOf(store.investments)
  /\ store' = snap
  /\ startLoad(visible \cup {"alert-container"})
  /\ priceRefresh' = [phase |-> "loading", load |-> Len(loads) + 1]
  /\ UNCHANGED <<investments, allocations, fxRates, growthRates, now,
                 includeUnvested, sliderValue, allocationView, statsView,
                 tableRows, projView, allocChart, tableView, historyView,
                 projTable>>
  /\ UNCHANGED created

\* API.updatePrices rejects: the catch and finally blocks of refreshPrices
UpdatePricesFail ==
  /\ priceRefresh.phase = "updating"
  /\ visible' = visible \cup {"alert-container"}
  /\ priceRefresh' = Idle
  /\ UNCHANGED <<investments, allocations, fxRates, growthRates, now,
                 includeUnvested, sliderValue, allocationView, statsView,
                 tableRows, projView, allocChart, tableView, historyView,
                 projTable, store, loads>>
  /\ UNCHANGED created

(***************************************************************************)
(* The page after construction, and after a first loadData has completed   *)
(* on a snapshot.                                                          *)
(***************************************************************************)
Constructed(snap, t) ==
  /\ created = <<>>
  /\ investments = <<>>
  /\ allocations = <<>>
  /\ fxRates = CONFIG_FX_RATES
  /\ growthRates = <<>>
  /\ sliderValue = 0
  /\ now = t
  /\ includeUnvested = FALSE
  /\ allocationView = "industry"
  /\ statsView = Null
  /\ tableRows = {}
  /\ tableView = Null
  /\ allocChart = Null
  /\ historyView = Null
  /\ projView = Null
  /\ projTable = Null
  /\ visible = {}
  /\ store = snap
  /\ loads = <<>>
  /\ priceRefresh = Idle

Loaded(invs, allocs, t) ==
  /\ created = <<>>
  /\ investments = invs
  /\ allocations = allocs
  /\ fxRates = CONFIG_FX_RATES
  /\ sliderValue = 0
  /\ growthRates = loadedRates(invs, <<>>, 0)
  /\ now = t
  /\ includeUnvested = FALSE
  /\ allocationView = "industry"
  /\ store = Snapshot(invs, allocs)
  /\ loads = <<[state |-> "done", data |-> <<Snapshot(invs, allocs)>>]>>
  /\ priceRefresh = Idle
  /\ IF invs = <<>>
     THEN /\ statsView = Null
          /\ tableRows = {}
          /\ tableView = Null
          /\ allocChart = Null
          /\ historyView = Null
          /\ projView = Null
          /\ projTable = Null
          /\ visible = {"empty-state"}
     ELSE /\ statsView = <<updateStats(invs, CONFIG_FX_RATES, t)>>
          /\ tableRows = idsOf(invs)
          /\ tableView = <<renderPortfolioTable(
                              invs, loadedRates(invs, <<>>, 0),
                              CONFIG_FX_RATES, t)>>
          /\ allocChart = renderAllocationChart("industry", invs, allocs,
                                                CONFIG_FX_RATES)
          /\ historyView = renderValueHistoryChart(invs, CONFIG_FX_RATES, t)
          /\ projView = renderProjection(invs, loadedRates(invs, <<>>, 0),
                                         CONFIG_FX_RATES, FALSE, t)
          /\ projTable = <<renderProjectionTable(projView[1])>>
          /\ visible = ShownByRefresh

(***************************************************************************)
(* Snapshots the store can return.                                         *)
(***************************************************************************)
Clocks == {<<2026, 11, 6, 0, 0>>, <<2026, 2, 10, 9, 0>>}

\* the same two moments on the wall clocks of a zone west and a zone east
\* of UTC
ZonedClocks ==
  Clocks \cup {<<2026, 11, 5, 18, -6>>, <<2026, 2, 10, 11, 2>>}

VestDates ==
  {Null, <<2025, 12, 31>>, <<2026, 11, 6>>, <<2026, 12, 20>>,
   <<2027, 5, 15>>, <<2032, 6, 1>>}

Holding(id, quantity, price, currency, vest) ==
  [id                 |-> id,
   quantity           |-> quantity,
   purchase_price     |-> 1,
   purchase_date      |-> <<2026, 8, 15>>,
   current_price      |-> price,
   currency           |-> currency,
   vest_date          |-> vest,
   annual_growth_rate |-> Null]

\* all lists of at most MaxHoldings holdings built from the given variants
\* <<quantity, price, currency, vest_date>>; the id is the position
HoldingLists(Variants) ==
  UNION {{[i \in 1..n |-> Holding(i, f[i][1], f[i][2], f[i][3], f[i][4])] :
            f \in [1..n -> Variants]} : n \in 0..MaxHoldings}

\* the currency of the i-th holding of a vesting snapshot
PositionCurrency(i) ==
  CASE i % 3 = 1 -> "EUR" [] i % 3 = 2 -> "USD" [] OTHER -> "GBP"

\* all lists of at most MaxHoldings holdings of one unit each, with every
\* choice of vest dates
VestingLists ==
  UNION {{[i \in 1..n |-> Holding(i, 1, 1, PositionCurrency(i), f[i])] :
            f \in [1..n -> VestDates]} : n \in 0..MaxHoldings}

Allocation(id, type, category, percentage) ==
  [investment      |-> id,
   allocation_type |-> type,
   category        |-> category,
   percentage      |-> percentage]

\* the allocation records one holding can carry: <<type, category, pct>>
AllocProfiles ==
  {<<>>,
   <<<<"industry", "Tech", 60>>, <<"industry", "Finance", 40>>>>,
   <<<<"industry", "Tech", 100>>>>,
   <<<<"industry", "Tech", 60>>>>,
   <<<<"industry", "Tech", 100>>, <<"industry", "Finance", 40>>>>,
   <<<<"industry", "", 40>>, <<"geography", "Europe", 100>>>>,
   <<<<"industry", "Tech", 0>>>>}

ValueVariants ==
  {<<1, 1, "EUR", Null>>, <<100, 1, "EUR", Null>>, <<1, 1, "MXN", Null>>}

\* the allocation list of a snapshot: the records of each holding's profile
RECURSIVE allocationList(_, _)
allocationList(profiles, i) ==
  IF i > Len(profiles) THEN <<>>
  ELSE [k \in 1..Len(profiles[i]) |->
          Allocation(i, profiles[i][k][1], profiles[i][k][2],
                     profiles[i][k][3])]
       \o allocationList(profiles, i + 1)

\* what the record store can hold during a page visit: nothing, one
\* unvested holding without a rate of its own, or the same holding after it
\* was edited and repriced: in USD, vested, with a stored rate of 0
StoreSnapshots ==
  {Snapshot(<<>>, <<>>),
   Snapshot(<<Holding(1, 1, 1, "EUR", <<2027, 5, 15>>)>>,
            <<Allocation(1, "industry", "Tech", 60)>>),
   Snapshot(<<[Holding(1, 1, 2, "USD", Null)
                 EXCEPT !.annual_growth_rate = <<0>>]>>,
            <<Allocation(1, "industry", "Tech", 100)>>)}

FxInputsPage == [USD : {500}, GBP : {0}, MXN : {0}]

\* holdings as the store can return them: <<quantity, purchase_price,
\* current_price, currency, purchase_date, vest_date>>, a null number being 0.
\* In order: a gain bought on the first of a month; an unvested loss; an empty position without dates; a
\* free position in a currency outside the FX table, bought later this
\* month; an unpriced position bought next year; a position vesting soon
DisplayVariants ==
  {<<1, 1, 3, "MXN", <<2026, 8, 1>>, Null>>,
   <<1, 2, 1, "USD", <<2025, 12, 31>>, <<2027, 5, 15>>>>,
   <<0, 1, 1, "EUR", Null, Null>>,
   <<1, 0, 1, "CHF", <<2026, 11, 20>>, Null>>,
   <<1, 1, 0, "GBP", <<2027, 1, 10>>, Null>>,
   <<2, 1, 1, "MXN", <<2026, 2, 28>>, <<2026, 12, 20>>>>}

\* all lists of at most MaxHoldings such holdings; the id is the position
DisplayLists ==
  UNION {{[i \in 1..n |->
             [Holding(i, f[i][1], f[i][3], f[i][4], f[i][6])
                EXCEPT !.purchase_price = f[i][2],
                       !.purchase_date = f[i][5]]] :
            f \in [1..n -> DisplayVariants]} : n \in 0..MaxHoldings}

FxInputsDisplay == [USD : {0, 500}, GBP : {0}, MXN : {0}]

(***************************************************************************)
(* The allocation endpoint (src/lambda).  A request body is a record whose *)
(* investment_id is 0 and whose category is "" when the field is missing,  *)
(* and whose percentage is Null or <<p>>.  A store page is the record of   *)
(* its properties, a relation being the sequence of the related page ids.  *)
(* store.allocations is what getAllocations returns: extractAllocationData *)
(* of every page.  created lists the createAllocation calls with their     *)
(* responses.                                                              *)
(***************************************************************************)
\* the properties createAllocation sends to the store (the title aside)
allocationProperties(data) ==
  [investments     |-> <<data.investment_id>>,
   allocation_type |-> data.allocation_type,
   category        |-> data.category,
   percentage      |-> data.percentage]

\* the names under which the code addresses the relation property of the
\* allocation database: "investment" when reading, "investments" when
\* writing and filtering
RelationNames == {"investment", "investments"}

\* notion.pages.create on a database whose relation property has the given
\* name: the store rejects a property the database does not have, and
\* otherwise answers with the page as stored
pagesCreate(properties, relationName) ==
  IF DOMAIN properties
       \subseteq {relationName, "allocation_type", "category", "percentage"}
  THEN <<properties>>
  ELSE Null

\* prop?.relation?.[0]?.id || null, with 0 for null
getRelation(props, name) ==
  IF name \in DOMAIN props /\ props[name] # <<>> THEN props[name][1] ELSE 0

\* prop?.number ?? null
getNumber(props, name) ==
  IF name \in DOMAIN props THEN props[name] ELSE Null

\* a null percentage is carried as 0, as the page reads it (a.percentage || 0)
extractAllocationData(page) ==
  LET rawPct == getNumber(page, "percentage")
  IN [investment      |-> getRelation(page, "investment"),
      allocation_type |-> page.allocation_type,
      category        |-> page.category,
      percentage      |-> IF rawPct # Null THEN rawPct[1] * 100 ELSE 0]

\* the response of createAllocation: its status and, on 201, the allocation
createAllocation(data, relationName) ==
  IF \/ data.investment_id = 0
     \/ data.allocation_type = ""
     \/ data.category = ""
     \/ data.percentage = Null
  THEN [status |-> 400, allocation |-> Null]
  ELSE IF data.percentage[1] < 0 \/ data.percentage[1] > 100
  THEN [status |-> 400, allocation |-> Null]
  ELSE LET page == pagesCreate(allocationProperties(data), relationName)
       IN IF page = Null
          THEN [status |-> 500, allocation |-> Null]
          ELSE [status     |-> 201,
                allocation |-> <<extractAllocationData(page[1])>>]

\* POST /allocations with body data
CreateAllocation(data, relationName) ==
  /\ Len(created) < MaxCreated
  /\ LET response == createAllocation(data, relationName)
     IN /\ created' = Append(created, [request    |-> data,
                                       status     |-> response.status,
                                       allocation |-> response.allocation])
        /\ store' = IF response.status = 201
                    THEN [store EXCEPT !.allocations =
                            Append(@, response.allocation[1])]
                    ELSE store
  /\ UNCHANGED <<investments, allocations, fxRates, growthRates, now,
                 includeUnvested, sliderValue, allocationView, statsView,
                 tableRows, projView, allocChart, visible, tableView,
                 historyView, projTable, loads, priceRefresh>>

\* request bodies: with and without holding and percentage, and with
\* percentages inside and outside 0..100
AllocationRequests ==
  [investment_id   : {0, 1},
   allocation_type : {"industry"},
   category        : {"Finance"},
   percentage      : {Null, <<0>>, <<50>>, <<150>>}]

(***************************************************************************)
(* Specifications.                                                         *)
(***************************************************************************)
\* the page from its construction on: loads, price refreshes and edits
Init ==
  \E snap \in StoreSnapshots : Constructed(snap, <<2026, 11, 6, 0, 0>>)

Next ==
  \/ InitPage
  \/ \E n \in 1..MaxLoads : LoadServe(n)
  \/ \E n \in 1..MaxLoads : LoadResolve(n)
  \/ \E n \in 1..MaxLoads : LoadFail(n)
  \/ RefreshPricesClick
  \/ \E snap \in StoreSnapshots : UpdatePricesDone(snap)
  \/ UpdatePricesFail
  \/ \E in \in FxInputsPage : ApplyFx(in)
  \/ \E type \in AllocationTypes : AllocationViewChange(type)
  \/ \E rate \in GrowthRates : GlobalSlider(rate)
  \/ \E id \in 1..MaxHoldings, rate \in GrowthRates : InvSlider(id, rate)
  \/ ToggleUnvested

Spec == Init /\ [][Next]_vars

\* everything the page displays, over holdings with zero, missing and
\* unrecognised attributes
InitDisplay ==
  \E invs \in DisplayLists, t \in ZonedClocks :
    Loaded(invs, <<>>, t)

NextDisplay ==
  \/ \E in \in FxInputsDisplay : ApplyFx(in)
  \/ \E rate \in GrowthRates : GlobalSlider(rate)
  \/ ToggleUnvested

SpecDisplay == InitDisplay /\ [][NextDisplay]_vars

\* valuation, vesting and projection over vesting snapshots
InitProjection ==
  \E invs \in VestingLists, t \in Clocks :
    Loaded(invs, <<>>, t)

NextProjection ==
  \/ ToggleUnvested
  \/ \E rate \in GrowthRates : GlobalSlider(rate)
  \/ \E id \in 1..MaxHoldings, rate \in GrowthRates : InvSlider(id, rate)

SpecProjection == InitProjection /\ [][NextProjection]_vars

\* valuation and vesting statistics over vesting snapshots, under FX edits
InitValuation ==
  \E invs \in VestingLists, t \in Clocks :
    Loaded(invs, <<>>, t)

NextValuation ==
  \E in \in FxInputsValuation : ApplyFx(in)

SpecValuation == InitValuation /\ [][NextValuation]_vars

\* weighted allocations over allocation snapshots
InitAllocations ==
  \E invs \in HoldingLists(ValueVariants) :
    \E profiles \in [1..Len(invs) -> AllocProfiles] :
      Loaded(invs, allocationList(profiles, 1), <<2026, 11, 6, 0, 0>>)

NextAllocations ==
  \/ \E type \in AllocationTypes : AllocationViewChange(type)
  \/ \E in \in FxInputsAllocation : ApplyFx(in)

SpecAllocations == InitAllocations /\ [][NextAllocations]_vars

\* holdings whose weights lie just above, at and just below a thousandth
\* of the portfolio: <<quantity, price, currency, vest_date>>
ThresholdVariants ==
  {<<1, 1, "EUR", Null>>, <<998, 1, "EUR", Null>>, <<999, 1, "EUR", Null>>,
   <<1000, 1, "EUR", Null>>, <<1, 1, "MXN", Null>>}

ThresholdProfiles ==
  {<<>>,
   <<<<"industry", "Tech", 100>>>>,
   <<<<"industry", "Finance", 60>>, <<"industry", "Energy", 40>>>>}

\* weighted allocations of portfolios with slices around the noise threshold
InitThreshold ==
  \E invs \in HoldingLists(ThresholdVariants) :
    \E profiles \in [1..Len(invs) -> ThresholdProfiles] :
      Loaded(invs, allocationList(profiles, 1), <<2026, 11, 6, 0, 0>>)

NextThreshold ==
  \/ \E type \in AllocationTypes : AllocationViewChange(type)
  \/ \E in \in FxInputsAllocation : ApplyFx(in)

SpecThreshold == InitThreshold /\ [][NextThreshold]_vars

\* allocations created through the endpoint and then loaded by the page
InitStore ==
  \E snap \in StoreSnapshots : Constructed(snap, <<2026, 11, 6, 0, 0>>)

NextStore ==
  \/ \E data \in AllocationRequests, relationName \in RelationNames :
       CreateAllocation(data, relationName)
  \/ InitPage
  \/ \E n \in 1..MaxLoads : LoadServe(n)
  \/ \E n \in 1..MaxLoads : LoadResolve(n)

SpecStore == InitStore /\ [][NextStore]_vars

\* the growth sliders over holdings with and without a stored growth rate
SliderLists ==
  UNION {{[i \in 1..n |->
             [Holding(i, 1, 1, PositionCurrency(i), Null)
                EXCEPT !.annual_growth_rate = f[i]]] :
            f \in [1..n -> {Null, <<0>>, <<1500>>}]} : n \in 1..MaxHoldings}

InitSliders ==
  \E invs \in SliderLists : Loaded(invs, <<>>, <<2026, 11, 6, 0, 0>>)

NextSliders ==
  \/ \E rate \in GrowthRates : GlobalSlider(rate)
  \/ \E id \in 1..MaxHoldings, rate \in GrowthRates : InvSlider(id, rate)
  \/ ToggleUnvested

SpecSliders == InitSliders /\ [][NextSliders]_vars

(***************************************************************************)
(* Properties of valuation, vesting and projection (SpecProjection,        *)
(* SpecValuation).                                                         *)
(***************************************************************************)
Idx == 1..Len(investments)

valueAt == [i \in Idx |-> getEuroValue(investments[i], fxRates)]

\* the value of holding i after q quarters at its own rate
grownAt(q) ==
  [i \in Idx |->
     LET f == quarterlyFactor(growthRateOf(investments[i].id, growthRates))
     IN (valueAt[i] * (f[1] ^ q)) \div (f[2] ^ q)]

vestedNow == {i \in Idx : isVested(investments[i], now)}

\* (vestYear - currentYear) * 4 + (vestQuarter - currentQuarter), the
\* quarter index being the 0-based month integer-divided by 3
offsetAt(i) ==
  LET vd == investments[i].vest_date
  IN (vd[1] - now[1]) * 4 + (((vd[2] - 1) \div 3) - ((now[2] - 1) \div 3))

\* the calendar day of a stored date is not after the clock's calendar day
onOrBeforeToday(date) ==
  \/ date[1] < now[1]
  \/ date[1] = now[1] /\ date[2] < now[2]
  \/ date[1] = now[1] /\ date[2] = now[2] /\ date[3] <= now[3]

\* C1: the period-0 split of the projection equals the split of the summary
\* statistics: liquid[0] is the value of the holdings that are vested now and
\* withUnvested[0] - liquid[0] the value of those that are not
C1_PeriodZeroSplit ==
  (projView # Null /\ statsView # Null) =>
    LET p == projView[1]
    IN /\ p.liquid[1] = SumOver(vestedNow, valueAt)
       /\ p.withUnvested[1] - p.liquid[1] = SumOver(Idx \ vestedNow, valueAt)
       /\ p.liquid[1] = statsView[1].liquidValue
       /\ p.withUnvested[1] - p.liquid[1] = statsView[1].unvestedValue

\* the holdings the claim C2 counts as liquid at period q, given the set
\* vested of holdings vested now and the offset offs[i] of each dated holding
liquidBy(q, vested, offs) ==
  {i \in Idx : i \in vested
               \/ (investments[i].vest_date # Null /\ offs[i] <= q)}

offsetsNow ==
  [i \in Idx |-> IF investments[i].vest_date # Null THEN offsetAt(i) ELSE 0]

C3_IsVestedRule ==
  \A i \in Idx :
    LET vd == investments[i].vest_date
    IN /\ (vd = Null \/ onOrBeforeToday(vd)) => isVested(investments[i], now)
       /\ (vd # Null /\ ~onOrBeforeToday(vd))
            => ~isVested(investments[i], now)

C3_Witness ==
  /\ Len(investments) = 2
  /\ investments[1].vest_date = <<now[1], now[2], now[3]>>
  /\ now[4] = 0
  /\ isVested(investments[1], now)
  /\ investments[2].vest_date # Null
  /\ ~isVested(investments[2], now)
  /\ statsView # Null
  /\ statsView[1].liquidValue = valueAt[1]

withoutVestDates ==
  [i \in Idx |-> [investments[i] EXCEPT !.vest_date = Null]]

\* C4: at every period withUnvested is the sum of the grown values of all
\* holdings, whatever their vest dates and whatever the toggle
C4_TotalIsSumOfGrownValues ==
  projView # Null =>
    LET p == projView[1]
    IN /\ \A q \in 0..Horizon :
            p.withUnvested[q + 1] = SumOver(Idx, grownAt(q))
       /\ p.withUnvested =
            calculateProjection(withoutVestDates, growthRates, fxRates,
                                ~includeUnvested, now).withUnvested

C4_Witness ==
  /\ projView # Null
  /\ includeUnvested
  /\ Len(investments) = 2
  /\ \E q \in 1..Horizon :
       /\ projView[1].liquid[q] = 0
       /\ projView[1].liquid[q + 1] > 0
       /\ projView[1].liquid[q + 1] < projView[1].withUnvested[q + 1]
       /\ projView[1].withUnvested[q + 1] > projView[1].withUnvested[q]

\* C5: total value is the sum of the holdings' values, and the displayed
\* liquid and unvested values partition it by isVested
C5_StatsPartition ==
  /\ getTotalValue(investments, fxRates) = SumOver(Idx, valueAt)
  /\ statsView # Null =>
       /\ statsView[1].totalValue = SumOver(Idx, valueAt)
       /\ statsView[1].liquidValue = SumOver(vestedNow, valueAt)
       /\ statsView[1].unvestedValue = SumOver(Idx \ vestedNow, valueAt)
       /\ statsView[1].liquidValue + statsView[1].unvestedValue
            = statsView[1].totalValue

C5_Witness ==
  /\ statsView # Null
  /\ fxRates.USD # CONFIG_FX_RATES.USD
  /\ Len(investments) = 2
  /\ statsView[1].liquidValue = valueAt[2]
  /\ statsView[1].unvestedValue = valueAt[1]
  /\ valueAt[2] = 500

(***************************************************************************)
(* Properties of the weighted allocations (SpecAllocations).               *)
(***************************************************************************)
totalNow == SumOver(Idx, valueAt)

\* what calculateWeightedAllocations returns for a dimension in this state
resultOf(type) ==
  calculateWeightedAllocations(type, investments, allocations, fxRates)

\* the numerator of a category in a result, 0 when the result has no entry
entryOf(data, cat) ==
  IF \E j \in 1..Len(data.labels) : data.labels[j] = cat
  THEN data.values[CHOOSE j \in 1..Len(data.labels) : data.labels[j] = cat]
  ELSE 0

hasEntry(data, cat) == \E j \in 1..Len(data.labels) : data.labels[j] = cat

\* the allocation records of holding i in a dimension
recordsOf(i, type) ==
  {k \in 1..Len(allocations) :
     /\ allocations[k].investment = investments[i].id
     /\ allocations[k].allocation_type = type}

unclassifiedHoldings(type) == {i \in Idx : recordsOf(i, type) = {}}

\* value * percentage of the records of holding i in a category
declaredIn(i, type, cat) ==
  SumOver({k \in recordsOf(i, type) :
             (IF allocations[k].category = "" THEN "Other"
              ELSE allocations[k].category) = cat},
          [k \in 1..Len(allocations) |->
             valueAt[i] * allocations[k].percentage])

declaredTotal(type, cat) ==
  SumOver(Idx, [i \in Idx |-> declaredIn(i, type, cat)])

declaredPct(i, type) ==
  SumOver(recordsOf(i, type),
          [k \in 1..Len(allocations) |-> allocations[k].percentage])

\* weight * 100 of the holdings without records, as a numerator
unclassifiedWeight(type) ==
  SumOver(unclassifiedHoldings(type), [i \in Idx |-> valueAt[i] * 100])

chartInSync ==
  allocChart = renderAllocationChart(allocationView, investments,
                                     allocations, fxRates)

\* C6 as stated: the Unclassified bucket equals exactly the total weight of
\* the holdings that have no allocation record for the dimension
C6_UnclassifiedEqualsWeight ==
  \A type \in AllocationTypes :
    totalNow > 0 =>
      entryOf(resultOf(type), "Unclassified") = unclassifiedWeight(type)

\* C6 amended: an Unclassified entry is returned exactly when the weight of
\* the holdings without records for the dimension exceeds 0.1, and its value
\* is then exactly that weight
C6_UnclassifiedAboveThreshold ==
  /\ chartInSync
  /\ \A type \in AllocationTypes :
       totalNow > 0 =>
         IF unclassifiedWeight(type) * 10 > totalNow
         THEN /\ hasEntry(resultOf(type), "Unclassified")
              /\ entryOf(resultOf(type), "Unclassified")
                   = unclassifiedWeight(type)
         ELSE ~hasEntry(resultOf(type), "Unclassified")

C6_Witness ==
  /\ allocChart # Null
  /\ allocationView = "industry"
  /\ Len(investments) = 2
  /\ unclassifiedHoldings("industry") = {2}
  /\ declaredPct(1, "industry") = 60
  /\ hasEntry(allocChart[1], "Unclassified")
  /\ entryOf(allocChart[1], "Unclassified") = valueAt[2] * 100
  /\ fxRates.MXN # CONFIG_FX_RATES.MXN

\* the sum of the values of a result
resultSum(data) == SumSeq(data.values)

\* C7: a holding with records contributes only weight * percentage per
\* record; what is missing to 100 goes to no category, and Unclassified
\* receives weight only from holdings without any record for the dimension
C7_RemainderNotRedistributed ==
  \A type \in AllocationTypes :
    totalNow > 0 =>
      LET data == resultOf(type)
      IN /\ entryOf(data, "Unclassified") \in {0, unclassifiedWeight(type)}
         /\ \A j \in 1..Len(data.labels) :
              data.labels[j] # "Unclassified" =>
                data.values[j] = declaredTotal(type, data.labels[j])
         /\ resultSum(data) <=
              unclassifiedWeight(type)
              + SumOver(Idx \ unclassifiedHoldings(type),
                        [i \in Idx |-> valueAt[i] * declaredPct(i, type)])

C7_Witness ==
  /\ allocChart # Null
  /\ allocationView = "industry"
  /\ Len(investments) = 2
  /\ recordsOf(1, "industry") # {}
  /\ declaredPct(1, "industry") = 60
  /\ unclassifiedHoldings("industry") = {2}
  /\ valueAt[1] = valueAt[2]
  /\ allocChart[1].labels = <<"Unclassified", "Tech">>
  /\ allocChart[1].values = <<100 * valueAt[2], 60 * valueAt[1]>>
  /\ resultSum(allocChart[1]) < 100 * totalNow

\* what the records of the holdings leave undeclared, as a numerator
missingWeight(type) ==
  SumOver(Idx, [i \in Idx |->
                  valueAt[i] * (100 - Min(100, declaredPct(i, type)))])

\* C8: the percentage missing from the allocations of a holding is
\* represented as unclassified in the aggregated output, never dropped
C8_MissingShownAsUnclassified ==
  \A type \in AllocationTypes :
    (totalNow > 0 /\ missingWeight(type) * 10 > totalNow) =>
      /\ hasEntry(resultOf(type), "Unclassified")
      /\ entryOf(resultOf(type), "Unclassified") >= missingWeight(type)

C10_SumAtMostHundred ==
  \A type \in AllocationTypes :
    (\A i \in Idx : declaredPct(i, type) <= 100) =>
      resultSum(resultOf(type)) <= 100 * resultOf(type).denom

C10_Witness ==
  /\ allocChart # Null
  /\ allocationView = "industry"
  /\ Len(investments) = 2
  /\ \A i \in Idx : declaredPct(i, "industry") <= 100
  /\ declaredPct(1, "industry") = 100
  /\ declaredPct(2, "industry") = 100
  /\ valueAt[1] # valueAt[2]
  /\ Len(allocChart[1].labels) = 2
  /\ resultSum(allocChart[1]) = 100 * totalNow

(***************************************************************************)
(* Properties of the page under loads and edits (Spec).                    *)
(***************************************************************************)
\* the cells of the projection table that hold a value
filledCells(rows) ==
  {<<r, k>> \in (1..Len(rows)) \X (1..4) : rows[r].quarters[k] # Null}

\* the projection table shows, period by period, the series of the chart
tableShowsChart ==
  (projView = Null <=> projTable = Null)
  /\ projView # Null =>
       LET p    == projView[1]
           rows == projTable[1]
       IN /\ Len(p.labels) = Horizon + 1
          /\ Len(p.liquid) = Horizon + 1
          /\ Len(p.withUnvested) = Horizon + 1
          /\ Cardinality(filledCells(rows)) = Horizon + 1
          /\ \A q \in 1..(Horizon + 1) :
               \E r \in 1..Len(rows) :
                 /\ rows[r].year = p.labels[q][2]
                 /\ rows[r].quarters[p.labels[q][1]] # Null
                 /\ rows[r].quarters[p.labels[q][1]][1] \in
                      {p.liquid[q], p.withUnvested[q]}

\* the chart and the table show the projection of the current holdings,
\* growth rates, FX rates and toggle
projectionCurrent ==
  /\ tableShowsChart
  /\ projView # Null
  /\ LET p      == projView[1]
         rows   == projTable[1]
         vested == vestedNow
         offs   == [i \in Idx |-> offsetsNow[i]]
     IN \A q \in 0..Horizon :
          /\ p.withUnvested[q + 1] = SumOver(Idx, grownAt(q))
          /\ p.liquid[q + 1] = SumOver(liquidBy(q, vested, offs), grownAt(q))
          /\ \E r \in 1..Len(rows) :
               /\ rows[r].year = p.labels[q + 1][2]
               /\ rows[r].quarters[p.labels[q + 1][1]] =
                    <<IF includeUnvested THEN p.withUnvested[q + 1]
                      ELSE p.liquid[q + 1]>>

\* a step of a growth slider or of the unvested toggle
projectionEdit ==
  /\ loads' = loads
  /\ \/ includeUnvested' # includeUnvested
     \/ sliderValue' # sliderValue
     \/ growthRates' # growthRates

\* C11: every change of a holding's growth rate, of the global growth rate
\* or of the unvested toggle regenerates, in that same step, all 21 periods
\* and the yearly table from the current inputs; the chart and the table
\* always show one and the same calculateProjection result
C11_EditRegeneratesProjection ==
  [][/\ projectionEdit => projectionCurrent'
     /\ tableShowsChart']_vars

C11_Witness ==
  /\ \E n \in 1..Len(loads) : loads[n].state = "done"
  /\ Len(investments) = 1
  /\ investments[1].vest_date # Null
  /\ includeUnvested
  /\ sliderValue = 0
  /\ growthRates[1] = 1500
  /\ projectionCurrent
  /\ projView[1].liquid[1] = 0
  /\ projTable[1][1].quarters[4] = <<valueAt[1]>>
  /\ projView[1].withUnvested[5] = valueAt[1] * 16

\* some loadData call has started and not yet completed
loading == \E n \in 1..Len(loads) : inFlight(n)

\* C12: while a loadData call is in flight, no FX-rate edit, growth-rate edit
\* or toggle change recomputes or renders: a step that is neither a step of
\* a load nor of refreshPrices nor a change of the allocation view leaves
\* the edited inputs and everything rendered from them as they were
C12_NoEditDuringLoad ==
  [][(/\ loading
      /\ loads' = loads
      /\ priceRefresh' = priceRefresh
      /\ allocationView' = allocationView)
     => UNCHANGED <<fxRates, growthRates, includeUnvested, sliderValue,
                    statsView, tableView, historyView, projView, projTable,
                    visible>>]_vars

\* C13: once all loadData calls have completed, the last of them
\* successfully, investments and allocations hold the response of the call
\* that was started last
C13_LatestLoadWins ==
  (/\ Len(loads) >= 2
   /\ ~loading
   /\ loads[Len(loads)].state = "done")
  => /\ investments = loads[Len(loads)].data[1].investments
     /\ allocations = loads[Len(loads)].data[1].allocations

\* the rate C14 expects for a holding: its own when stored, else the value
\* of the global slider
expectedRate(inv) ==
  IF inv.annual_growth_rate # Null THEN inv.annual_growth_rate[1]
  ELSE sliderValue

\* the value of holding i after q quarters at the rate C14 expects
grownAtExpected(q) ==
  [i \in Idx |->
     LET f == quarterlyFactor(expectedRate(investments[i]))
     IN (valueAt[i] * (f[1] ^ q)) \div (f[2] ^ q)]

\* rates in use, rows of the table and projection all follow expectedRate
ratesAsLoaded ==
  /\ \A i \in Idx :
       growthRateOf(investments[i].id, growthRates)
         = expectedRate(investments[i])
  /\ tableView # Null
  /\ \A i \in Idx :
       \E r \in 1..Len(tableView[1].rows) :
         /\ tableView[1].rows[r].id = investments[i].id
         /\ tableView[1].rows[r].growthRate = expectedRate(investments[i])
  /\ projView # Null
  /\ \A q \in 0..Horizon :
       projView[1].withUnvested[q + 1] = SumOver(Idx, grownAtExpected(q))

\* a loadData call completes successfully with at least one holding
loadCompletes ==
  \E n \in 1..Len(loads) :
    /\ loads[n].state = "served"
    /\ loads'[n].state = "done"
    /\ Len(loads[n].data[1].investments) > 0

\* C14: after a successful loadData the annual growth rate used by the
\* projection and shown in the holdings table is, for each holding, its own
\* annual_growth_rate when that is non-null (0 included) and the value of
\* the global growth-rate slider otherwise
C14_LoadedGrowthRates ==
  [][loadCompletes => ratesAsLoaded']_vars

C14_Witness ==
  /\ Len(loads) = 2
  /\ loads[2].state = "done"
  /\ investments = loads[2].data[1].investments
  /\ Len(investments) = 1
  /\ investments[1].annual_growth_rate = <<0>>
  /\ sliderValue = 1500
  /\ ratesAsLoaded
  /\ growthRates[1] = 0
  /\ projView[1].withUnvested[Horizon + 1] = valueAt[1]

(***************************************************************************)
(* Properties of what the page displays (SpecDisplay, SpecProjection).     *)
(***************************************************************************)
costAt == [i \in Idx |-> getCostBasis(investments[i], fxRates)]

\* the row of holding i in the rendered table
rowOf(i) ==
  tableView[1].rows[CHOOSE r \in 1..Len(tableView[1].rows) :
                      tableView[1].rows[r].id = investments[i].id]

\* the table shows the current holdings
tableInSync ==
  /\ tableView # Null
  /\ {tableView[1].rows[r].id : r \in 1..Len(tableView[1].rows)}
       = idsOf(investments)

\* C15: no displayed percentage is the result of a division by zero: the
\* percent return is 0 when the cost basis is not greater than 0 (per
\* holding and in total), the percent of portfolio is 0 when the total value
\* is 0, calculateWeightedAllocations is empty when the total value is 0,
\* and the year-over-year cell is the placeholder when the previous
\* year-end value is 0
C15_NoDivisionByZero ==
  /\ \A type \in AllocationTypes :
       totalNow = 0 =>
         /\ resultOf(type).labels = <<>>
         /\ resultOf(type).values = <<>>
  /\ statsView # Null =>
       /\ statsView[1].gainLossPct # NotFinite
       /\ SumOver(Idx, costAt) <= 0 => statsView[1].gainLossPct = <<0>>
  /\ tableInSync =>
       /\ tableView[1].totalReturnPct # NotFinite
       /\ SumOver(Idx, costAt) <= 0 => tableView[1].totalReturnPct = <<0>>
       /\ \A i \in Idx :
            /\ rowOf(i).pctReturn # NotFinite
            /\ rowOf(i).pctPortfolio # NotFinite
            /\ costAt[i] <= 0 => rowOf(i).pctReturn = <<0>>
            /\ totalNow = 0 => rowOf(i).pctPortfolio = <<0>>
  /\ projTable # Null =>
       \A r \in 2..Len(projTable[1]) :
         projTable[1][r - 1].yearEnd = <<0>>
           => projTable[1][r].yoy.kind = "placeholder"

C15_Witness ==
  /\ Len(investments) = 2
  /\ tableInSync
  /\ statsView # Null
  /\ projTable # Null
  /\ totalNow = 0
  /\ costAt[1] = 0
  /\ costAt[2] > 0
  /\ rowOf(1).pctReturn = <<0>>
  /\ rowOf(1).pctPortfolio = <<0>>
  /\ rowOf(2).pctReturn = <<-10000>>
  /\ statsView[1].gainLossPct = <<-1000>>
  /\ allocChart = Null
  /\ projTable[1][2].yoy.kind = "placeholder"
  /\ fxRates.USD # CONFIG_FX_RATES.USD

Zeroes == [q \in 1..(Horizon + 1) |-> 0]

\* C16: with an empty list of holdings getTotalValue and getTotalCost are 0,
\* calculateWeightedAllocations and calculateValueHistory are empty, and
\* calculateProjection returns 21 periods whose every value is 0; the
\* page displays exactly these when it renders them
C16_EmptyListDefined ==
  investments = <<>> =>
    /\ getTotalValue(investments, fxRates) = 0
    /\ getTotalCost(investments, fxRates) = 0
    /\ \A type \in AllocationTypes :
         /\ resultOf(type).labels = <<>>
         /\ resultOf(type).values = <<>>
    /\ calculateValueHistory(investments, fxRates, now)
         = [labels |-> <<>>, values |-> <<>>]
    /\ LET p == calculateProjection(investments, growthRates, fxRates,
                                    includeUnvested, now)
       IN /\ p.liquid = Zeroes
          /\ p.withUnvested = Zeroes
          /\ Len(p.labels) = Horizon + 1
          /\ \A r \in 1..Len(p.yearlyData), k \in 1..4 :
               p.yearlyData[r].quarters[k] \in {Null, <<0>>}
    /\ projView # Null =>
         /\ projView[1].liquid = Zeroes
         /\ projView[1].withUnvested = Zeroes
    /\ statsView # Null =>
         /\ statsView[1].totalValue = 0
         /\ statsView[1].gainLoss = 0
         /\ statsView[1].gainLossPct = <<0>>
    /\ allocChart = Null
    /\ historyView = Null

C16_Witness ==
  /\ investments = <<>>
  /\ includeUnvested
  /\ projView # Null
  /\ projView[1].withUnvested = Zeroes
  /\ statsView # Null
  /\ statsView[1].totalValue = 0
  /\ projTable # Null
  /\ Cardinality(filledCells(projTable[1])) = Horizon + 1

\* the currency code of holding i is not in the rate table
unrecognised(i) == currencyOf(investments[i]) \notin DOMAIN fxRates

\* the holdings with every unrecognised currency code replaced by the
\* reporting currency
asReportingCurrency ==
  [i \in Idx |-> IF unrecognised(i)
                 THEN [investments[i] EXCEPT !.currency = "EUR"]
                 ELSE investments[i]]

C17_FallbackValue ==
  \A i \in Idx :
    unrecognised(i) =>
      /\ getEuroValue(investments[i], fxRates)
           = investments[i].quantity * investments[i].current_price * EurUnit
      /\ getTotalValue(investments, fxRates) = SumOver(Idx, valueAt)
      /\ statsView # Null => statsView[1].totalValue = SumOver(Idx, valueAt)

\* months since year 0 of a <<year, month, ...>> tuple
monthIndex(date) == date[1] * 12 + date[2] - 1

\* the holdings that have a purchase_date
datedIdx == {i \in Idx : investments[i].purchase_date # Null}

\* the purchase month of the earliest-purchased holding
firstPurchaseMonth ==
  CHOOSE m \in {monthIndex(investments[i].purchase_date) : i \in datedIdx} :
    \A i \in datedIdx : m <= monthIndex(investments[i].purchase_date)

\* the history has one point for each month from the first purchase month
\* through the month of the clock, in order, and is empty without a dated
\* holding; the chart shows it
monthlyHistory ==
  LET h == calculateValueHistory(investments, fxRates, now)
  IN /\ Len(h.values) = Len(h.labels)
     /\ datedIdx = {} => h.labels = <<>>
     /\ datedIdx # {} =>
          /\ Len(h.labels)
               = (IF firstPurchaseMonth > monthIndex(now) THEN 0
                  ELSE monthIndex(now) - firstPurchaseMonth + 1)
          /\ \A k \in 1..Len(h.labels) :
               monthIndex(h.labels[k]) = firstPurchaseMonth + k - 1
     /\ historyView = IF Len(h.labels) = 0 THEN Null ELSE <<h>>

\* C18: calculateValueHistory returns exactly one point per calendar month,
\* in chronological order without gaps or duplicates, from the purchase
\* month of the earliest-purchased holding through the current month
\* inclusive, and an empty result when there are no holdings or no holding
\* has a purchase_date
C18_MonthlyHistory == monthlyHistory

\* the part of C18 that holds: the same statement for a browser whose zone
\* is UTC or east of it
C18_MonthlyHistoryEastOfUTC == now[5] >= 0 => monthlyHistory

\* a history of several months in a zone at or east of UTC
C18_HistoryShown ==
  /\ now[5] >= 0
  /\ historyView # Null
  /\ Len(historyView[1].labels) = 12
  /\ Len(investments) = 2

\* the rows of the yearly table
yearRows == IF projTable = Null THEN <<>> ELSE projTable[1]

\* the last quarter of row idx that has a value
lastFilled(idx) ==
  CHOOSE k \in 1..4 :
    /\ yearRows[idx].quarters[k] # Null
    /\ \A j \in (k + 1)..4 : yearRows[idx].quarters[j] = Null

\* every row has a quarter with a value, and its year-end is the last one
yearEndIsLastQuarter ==
  \A idx \in 1..Len(yearRows) :
    /\ \E k \in 1..4 : yearRows[idx].quarters[k] # Null
    /\ yearRows[idx].yearEnd = yearRows[idx].quarters[lastFilled(idx)]

\* the first row carries the baseline marker
firstYearBaseline ==
  Len(yearRows) >= 1 => yearRows[1].yoy.kind = "baseline"

\* the cell of row idx is the percent change from the year-end of row
\* idx - 1, to one decimal
isPercentChange(idx) ==
  /\ yearRows[idx].yoy.kind = "percent"
  /\ yearRows[idx].yoy.value
       = percentToFixed(yearRows[idx].yearEnd[1]
                          - yearRows[idx - 1].yearEnd[1],
                        yearRows[idx - 1].yearEnd[1], 1)[1]

\* C19: in the yearly table the year-end value of each year is the value of
\* its last non-null quarter, the year-over-year cell of the first year is
\* the baseline marker, and the cell of every later year is the percent
\* change from the previous year's year-end value
C19_YearOverYear ==
  /\ yearEndIsLastQuarter
  /\ firstYearBaseline
  /\ \A idx \in 2..Len(yearRows) : isPercentChange(idx)

\* C19 as it holds: the cell of a later year is the percent change when the
\* previous year-end is positive and the year-end is not zero, and the
\* placeholder otherwise
C19_YearOverYearGuarded ==
  /\ yearEndIsLastQuarter
  /\ firstYearBaseline
  /\ \A idx \in 2..Len(yearRows) :
       IF yearRows[idx - 1].yearEnd[1] > 0 /\ yearRows[idx].yearEnd[1] # 0
       THEN isPercentChange(idx)
       ELSE yearRows[idx].yoy.kind = "placeholder"

\* a holding that vests next year, shown without unvested holdings at a
\* growing rate: this year ends at 0, next year has no percentage, the
\* year after shows +1500.0 percent
C19_Witness ==
  /\ Len(yearRows) = 6
  /\ yearRows[1].quarters = <<Null, Null, Null, <<0>>>>
  /\ yearRows[1].yoy.kind = "baseline"
  /\ yearRows[2].yearEnd[1] > 0
  /\ yearRows[2].yoy.kind = "placeholder"
  /\ yearRows[3].yoy = [kind |-> "percent", value |-> 15000]

\* the rate in force for holding i is 0 percent
zeroRate(i) ==
  /\ investments[i].id \in DOMAIN growthRates
  /\ growthRates[investments[i].id] = 0

\* C20: with an annual growth rate of 0 percent a holding's grown value
\* equals its current value at every period 0..20, and the with-unvested
\* series of a portfolio whose holdings all have rate 0 percent is constant
C20_ZeroRateIsFlat ==
  /\ \A i \in Idx :
       zeroRate(i) =>
         \A q \in 0..Horizon :
           grownValue(projHolding(investments[i], growthRates, fxRates,
                                  now), q) = valueAt[i]
  /\ (projView # Null /\ \A i \in Idx : zeroRate(i)) =>
       \A q \in 1..(Horizon + 1) : projView[1].withUnvested[q] = totalNow

\* two holdings, one of them unvested, both set to 0 percent, with a flat
\* series at their total value
C20_Witness ==
  /\ Len(investments) = 2
  /\ \A i \in Idx : zeroRate(i)
  /\ \E i \in Idx : ~isVested(investments[i], now)
  /\ totalNow > 0
  /\ projView # Null
  /\ projView[1].withUnvested[1] = totalNow
  /\ projView[1].withUnvested[Horizon + 1] = totalNow

\* the tracking record of holding i in this state
holdingAt(i) == projHolding(investments[i], growthRates, fxRates, now)

\* C21: with values and rates at or above 0, the grown value of every
\* holding is non-decreasing in the period index, and so are the
\* with-unvested series and the liquid series over the periods 0..20
C21_NonDecreasing ==
  /\ \A i \in Idx :
       \A q \in 0..(Horizon - 1) :
         grownValue(holdingAt(i), q) <= grownValue(holdingAt(i), q + 1)
  /\ projView # Null =>
       \A q \in 1..Horizon :
         /\ projView[1].withUnvested[q] <= projView[1].withUnvested[q + 1]
         /\ projView[1].liquid[q] <= projView[1].liquid[q + 1]

\* a growing holding next to one that vests within the horizon: the liquid
\* series starts below the with-unvested series and both rise
C21_Witness ==
  /\ Len(investments) = 2
  /\ \E i \in Idx : ~isVested(investments[i], now) /\ offsetAt(i) \in 1..Horizon
  /\ \A i \in Idx : growthRateOf(investments[i].id, growthRates) > 0
  /\ projView # Null
  /\ projView[1].liquid[1] > 0
  /\ projView[1].liquid[1] < projView[1].withUnvested[1]
  /\ projView[1].liquid[Horizon + 1] = projView[1].withUnvested[Horizon + 1]
  /\ projView[1].withUnvested[1] < projView[1].withUnvested[Horizon + 1]

\* (1 + r/100) ^ k for the rate of holding i, as integer: the rates of the
\* model make 1 + r/100 a whole number
annualFactor(i) == (100 + growthRateOf(investments[i].id, growthRates)) \div 100

\* C22: the quarterly rate is (1 + r/100)^(1/4) - 1, so the fourth power of
\* the quarterly factor is 1 + r/100 and the grown value at period 4k is
\* the current value times (1 + r/100)^k
C22_FourQuartersCompoundToYear ==
  \A i \in Idx :
    LET h == holdingAt(i)
        r == growthRateOf(investments[i].id, growthRates)
    IN /\ (h.factor[1] ^ 4) * 100 = (h.factor[2] ^ 4) * (100 + r)
       /\ \A k \in 0..(Horizon \div 4) :
            grownValue(h, 4 * k) = valueAt[i] * (annualFactor(i) ^ k)
       /\ projView # Null /\ Len(investments) = 1 =>
            \A k \in 0..(Horizon \div 4) :
              projView[1].withUnvested[4 * k + 1]
                = valueAt[i] * (annualFactor(i) ^ k)

\* one holding of one unit at 1500 percent: a quarterly factor of 2, worth
\* 16 units after four periods and 256 after eight
C22_Witness ==
  /\ Len(investments) = 1
  /\ growthRateOf(investments[1].id, growthRates) = 1500
  /\ holdingAt(1).factor = <<2, 1>>
  /\ valueAt[1] = EurUnit
  /\ projView # Null
  /\ projView[1].withUnvested[2] = 2 * EurUnit
  /\ projView[1].withUnvested[5] = 16 * EurUnit
  /\ projView[1].withUnvested[9] = 256 * EurUnit

(***************************************************************************)
(* Properties of reloads and slider edits (Spec).                          *)
(***************************************************************************)
\* a loadData call completes in this step without holdings to show: its
\* response is empty or a request has failed
loadEndsWithoutHoldings ==
  \E n \in 1..Len(loads) :
    /\ inFlight(n)
    /\ \/ loads'[n].state = "failed"
       \/ loads'[n].state = "done" /\ Len(loads[n].data[1].investments) = 0

\* a loadData call completes in this step
loadEnds ==
  \E n \in 1..Len(loads) : inFlight(n) /\ loads'[n].state \in {"done", "failed"}

\* C23: when a loadData call completes with zero holdings or fails, the
\* stats, portfolio, charts and projections sections are all hidden, and
\* the loading indicator is hidden when a loadData call completes on any
\* path
C23_NoStaleSections ==
  [][/\ loadEndsWithoutHoldings => visible' \cap ShownByRefresh = {}
     /\ loadEnds => "loading-state" \notin visible']_vars

\* the part of C23 that holds: the loading indicator is hidden whenever a
\* loadData call completes, and a completed load with holdings shows the
\* sections drawn from its response
C23_LoadingIndicatorHidden ==
  [][/\ loadEnds => "loading-state" \notin visible'
     /\ loadCompletes => (/\ ShownByRefresh \subseteq visible'
                          /\ projectionCurrent'
                          /\ tableInSync')]_vars

\* a reload has failed after a successful load and the projections section
\* still shows the projection of the earlier snapshot
C23_StaleProjectionShown ==
  /\ Len(loads) = 2
  /\ loads[1].state = "done"
  /\ loads[2].state = "failed"
  /\ priceRefresh = Idle
  /\ visible = {"projections-section", "alert-container"}
  /\ projView # Null

(***************************************************************************)
(* Properties of the noise threshold (SpecThreshold).                      *)
(***************************************************************************)
\* the categories that receive a contribution in a dimension
accumulatedCategories(type) ==
  {(IF allocations[k].category = "" THEN "Other"
    ELSE allocations[k].category) :
     k \in UNION {recordsOf(i, type) : i \in Idx}}
  \cup (IF unclassifiedHoldings(type) # {} THEN {"Unclassified"} ELSE {})

\* the accumulated contribution of a category, as a numerator over totalNow
accumulated(type, cat) ==
  IF cat = "Unclassified" THEN unclassifiedWeight(type)
  ELSE declaredTotal(type, cat)

\* the result lists each of the given categories once, with its accumulated
\* contribution, in descending order of contribution
listsSorted(data, type, cats) ==
  /\ {data.labels[j] : j \in 1..Len(data.labels)} = cats
  /\ Len(data.labels) = Cardinality(cats)
  /\ Len(data.values) = Len(data.labels)
  /\ \A j \in 1..Len(data.labels) :
       data.values[j] = accumulated(type, data.labels[j])
  /\ \A j \in 1..(Len(data.values) - 1) : data.values[j] >= data.values[j + 1]

\* C24: calculateWeightedAllocations drops exactly the categories whose
\* accumulated contribution is below 0.1 percentage points, keeping a
\* category whose contribution is exactly 0.1 or more, and returns the
\* remaining categories sorted by contribution in descending order
C24_DropsBelowThreshold ==
  \A type \in AllocationTypes :
    totalNow > 0 =>
      listsSorted(resultOf(type), type,
                  {cat \in accumulatedCategories(type) :
                     accumulated(type, cat) * 10 >= totalNow})

\* C24 as it holds: the categories kept are those whose contribution is
\* greater than 0.1; a contribution of exactly 0.1 is dropped
C24_KeepsAboveThreshold ==
  /\ chartInSync
  /\ \A type \in AllocationTypes :
       totalNow > 0 =>
         listsSorted(resultOf(type), type,
                     {cat \in accumulatedCategories(type) :
                        accumulated(type, cat) * 10 > totalNow})

\* one unit all in Tech next to 999 units in Finance and Energy: Tech
\* contributes exactly 0.1 and is dropped, the other two are listed in
\* descending order
C24_Witness ==
  /\ Len(investments) = 2
  /\ allocationView = "industry"
  /\ accumulated("industry", "Tech") * 10 = totalNow
  /\ allocChart # Null
  /\ allocChart[1].labels = <<"Finance", "Energy">>
  /\ allocChart[1].values[1] > allocChart[1].values[2]

(***************************************************************************)
(* Properties of the value history and of the projection's shape           *)
(* (SpecDisplay).                                                          *)
(***************************************************************************)
\* the holdings purchased on or before the last day of the month of label
purchasedBy(label) ==
  {i \in datedIdx :
     monthIndex(investments[i].purchase_date) <= monthIndex(label)}

\* every point of the shown history that lies before the month of the clock
\* is the cost basis of the holdings purchased by the end of its month
pastMonthsAtCost ==
  historyView # Null =>
    \A k \in 1..Len(historyView[1].labels) :
      monthIndex(historyView[1].labels[k]) < monthIndex(now) =>
        historyView[1].values[k]
          = SumOver(purchasedBy(historyView[1].labels[k]), costAt)

\* C25: for every month of the value history strictly before the current
\* month, the value is the sum of getCostBasis over exactly the holdings
\* whose purchase_date is on or before the last day of that month, a
\* purchase on the last day included and holdings without purchase_date
\* excluded
C25_PastMonthsAtCost == pastMonthsAtCost

\* the part of C25 that holds: the same statement for a browser whose zone
\* is UTC or west of it, where the point of the current month moreover
\* carries the current market value of the whole portfolio
C25_PastMonthsAtCostWestOfUTC ==
  now[5] <= 0 =>
    /\ pastMonthsAtCost
    /\ historyView # Null =>
         LET n == Len(historyView[1].labels)
         IN /\ monthIndex(historyView[1].labels[n]) = monthIndex(now)
            /\ historyView[1].values[n] = totalNow

\* east of UTC, a holding bought on the last day of a past month is missing
\* from the point of that month
C25_LastDayPurchaseMissing ==
  /\ now[5] > 0
  /\ Len(investments) = 1
  /\ investments[1].purchase_date = <<2025, 12, 31>>
  /\ costAt[1] > 0
  /\ historyView # Null
  /\ historyView[1].labels[1] = <<2025, 12>>
  /\ historyView[1].values[1] = 0

\* the 0-based quarter and the year of the clock
cq == (now[2] - 1) \div 3

cy == now[1]

\* C26: calculateProjection produces one entry per period 0..20 in labels,
\* liquid and withUnvested, and the label of period q is quarter
\* ((cq + q) mod 4) + 1 of year cy + floor((cq + q) / 4): each label follows
\* its predecessor by one quarter, Q4 being followed by Q1 of the next year
C26_PeriodLabels ==
  LET p == calculateProjection(investments, growthRates, fxRates,
                               includeUnvested, now)
  IN /\ Len(p.labels) = Horizon + 1
     /\ Len(p.liquid) = Horizon + 1
     /\ Len(p.withUnvested) = Horizon + 1
     /\ \A q \in 0..Horizon :
          p.labels[q + 1] = <<((cq + q) % 4) + 1, cy + ((cq + q) \div 4)>>
     /\ \A q \in 1..Horizon :
          p.labels[q + 1] = (IF p.labels[q][1] = 4
                             THEN <<1, p.labels[q][2] + 1>>
                             ELSE <<p.labels[q][1] + 1, p.labels[q][2]>>)
     /\ projView # Null => projView[1].labels = p.labels

\* a projection drawn in the first quarter of 2026: Q1 2026 ... Q1 2031
C26_Witness ==
  /\ now[2] = 2
  /\ Len(investments) = 2
  /\ projView # Null
  /\ projView[1].labels[1] = <<1, 2026>>
  /\ projView[1].labels[4] = <<4, 2026>>
  /\ projView[1].labels[5] = <<1, 2027>>
  /\ projView[1].labels[Horizon + 1] = <<1, 2031>>
  /\ Len(projView[1].withUnvested) = 21

\* the period index of quarter k (1..4) of a year
periodOf(year, k) == (year - cy) * 4 + (k - 1) - cq

\* C27: calculateProjection groups the 21 periods into one yearlyData row
\* per calendar year, in increasing order with no year missing or repeated;
\* the cell of a quarter holds withUnvested of its period when
\* include-unvested is checked and liquid otherwise, cells of quarters
\* outside the horizon are null, and every row has a non-null cell
C27_YearlyRows ==
  LET p == calculateProjection(investments, growthRates, fxRates,
                               includeUnvested, now)
      y == p.yearlyData
  IN /\ Len(y) = ((cq + Horizon) \div 4) + 1
     /\ \A r \in 1..Len(y) :
          /\ y[r].year = cy + r - 1
          /\ \E k \in 1..4 : y[r].quarters[k] # Null
          /\ \A k \in 1..4 :
               LET q == periodOf(y[r].year, k)
               IN y[r].quarters[k] =
                    (IF q \in 0..Horizon
                     THEN <<IF includeUnvested THEN p.withUnvested[q + 1]
                            ELSE p.liquid[q + 1]>>
                     ELSE Null)
     /\ projTable # Null =>
          \A r \in 1..Len(y) :
            /\ yearRows[r].year = y[r].year
            /\ yearRows[r].quarters = y[r].quarters

\* a table drawn in the first quarter of 2026 without unvested holdings:
\* six rows 2026..2031, the last with its first quarter only, the cells
\* carrying the liquid series, which lies below the with-unvested series
C27_Witness ==
  /\ now[2] = 2
  /\ ~includeUnvested
  /\ projView # Null
  /\ Len(yearRows) = 6
  /\ yearRows[1].year = 2026
  /\ yearRows[6].year = 2031
  /\ yearRows[6].quarters[1] # Null
  /\ yearRows[6].quarters[2] = Null
  /\ yearRows[1].quarters[1] = <<projView[1].liquid[1]>>
  /\ projView[1].liquid[1] < projView[1].withUnvested[1]

(***************************************************************************)
(* Properties of the allocation endpoint (SpecStore).                      *)
(***************************************************************************)
\* C28: an allocation created by createAllocation with investment_id X and
\* percentage p in 0..100 is read back by extractAllocationData, in the
\* response and in what getAllocations returns, with investment = X and
\* percentage = p
C28_AllocationRoundTrip ==
  \A k \in 1..Len(created) :
    created[k].status = 201 =>
      LET asRequested == Allocation(created[k].request.investment_id,
                                    created[k].request.allocation_type,
                                    created[k].request.category,
                                    created[k].request.percentage[1])
      IN /\ created[k].allocation = <<asRequested>>
         /\ \E j \in 1..Len(store.allocations) :
              store.allocations[j] = asRequested

\* what holds instead: a request with a missing field or a percentage
\* outside 0..100 is refused with 400, the store refuses the page when its
\* relation property is not named "investments", and a created allocation
\* is read back without its holding and with 100 times its percentage
C28_ReadBackDetached ==
  \A k \in 1..Len(created) :
    LET c == created[k]
    IN /\ c.status \in {201, 400, 500}
       /\ c.status = 400 <=>
            \/ c.request.investment_id = 0
            \/ c.request.percentage = Null
            \/ c.request.percentage[1] \notin 0..100
       /\ c.status = 201 =>
            /\ c.allocation[1].investment = 0
            /\ c.allocation[1].percentage = 100 * c.request.percentage[1]
            /\ \E j \in 1..Len(store.allocations) :
                 store.allocations[j] = c.allocation[1]

\* the page has loaded an allocation created for holding 1 with 50 percent:
\* the record carries no holding and a percentage of 5000
C28_CreatedNotJoined ==
  /\ \E k \in 1..Len(created) :
       /\ created[k].status = 201
       /\ created[k].request.investment_id = 1
       /\ created[k].request.percentage = <<50>>
  /\ Len(investments) = 1
  /\ investments[1].id = 1
  /\ \E j \in 1..Len(allocations) :
       /\ allocations[j].category = "Finance"
       /\ allocations[j].investment = 0
       /\ allocations[j].percentage = 5000
  /\ allocChart # Null
  /\ ~hasEntry(allocChart[1], "Finance")

(***************************************************************************)
(* Properties of the snapshot and of the growth rates (Spec).              *)
(***************************************************************************)
\* holdings and allocations are the two responses of one completed
\* loadData call, or both still empty
fromOneLoad ==
  \/ investments = <<>> /\ allocations = <<>>
  \/ \E n \in 1..Len(loads) :
       /\ loads[n].state = "done"
       /\ investments = loads[n].data[1].investments
       /\ allocations = loads[n].data[1].allocations

\* loadData call n resumes with its responses in this step
resolves(n) == loads[n].state = "served" /\ loads'[n].state = "done"

\* a request of loadData call n fails in this step
fails(n) == inFlight(n) /\ loads'[n].state = "failed"

\* C29: investments, allocations and the growthRates entries of the loaded
\* holdings are replaced in one step from the responses of one loadData
\* call, so that the holdings of one load are never held together with the
\* allocations of another, and a failed load leaves investments,
\* allocations and growthRates as they were
C29_AtomicSnapshot ==
  [][/\ fromOneLoad'
     /\ \A n \in 1..Len(loads) :
          /\ resolves(n) =>
               /\ investments' = loads[n].data[1].investments
               /\ allocations' = loads[n].data[1].allocations
               /\ idsOf(investments') \subseteq DOMAIN growthRates'
               /\ \A id \in DOMAIN growthRates \ idsOf(investments') :
                    growthRates'[id] = growthRates[id]
          /\ fails(n) =>
               UNCHANGED <<investments, allocations, growthRates>>
     /\ (\A n \in 1..Len(loads) : ~resolves(n)) =>
          UNCHANGED <<investments, allocations>>]_vars

\* two loads have completed on different states of the record store, and
\* the page holds the holdings and the allocations of the second
C29_Witness ==
  /\ Len(loads) = 2
  /\ loads[1].state = "done"
  /\ loads[2].state = "done"
  /\ loads[1].data[1].allocations # loads[2].data[1].allocations
  /\ loads[1].data[1].investments # loads[2].data[1].investments
  /\ investments = loads[2].data[1].investments
  /\ allocations = loads[2].data[1].allocations
  /\ allocations # <<>>
  /\ 1 \in DOMAIN growthRates

\* the global growth-rate slider has moved in this step
sliderMoved == sliderValue' # sliderValue

\* the growth rates of the holdings in ids, and of no others, have changed
onlyChanged(ids) ==
  /\ DOMAIN growthRates' = DOMAIN growthRates \cup ids
  /\ \A id \in DOMAIN growthRates \ ids : growthRates'[id] = growthRates[id]

\* every loaded holding has the rate of the global slider
allAtSliderValue ==
  \A id \in idsOf(investments) :
    id \in DOMAIN growthRates /\ growthRates[id] = sliderValue

\* C30: an input of the global growth-rate slider sets the growth rate of
\* every loaded holding to the slider's value, whether the rate came from
\* a stored annual_growth_rate or from an earlier edit of the holding's own
\* slider; an input of a holding's own slider changes the growth rate of
\* that holding only
C30_SliderFrames ==
  [][/\ sliderMoved => allAtSliderValue' /\ onlyChanged(idsOf(investments))
     /\ (loads' = loads /\ ~sliderMoved /\ growthRates' # growthRates) =>
          \/ \E id \in tableRows :
               /\ onlyChanged({id})
               /\ growthRates'[id] \in GrowthRates
          \/ allAtSliderValue' /\ onlyChanged(idsOf(investments))]_vars

\* two holdings are loaded, the first with a stored growth rate of 0; the
\* global slider has put both at 15 percent and the second holding's own
\* slider has put that holding back to 0
C30_Witness ==
  /\ Len(investments) = 2
  /\ investments[1].annual_growth_rate = <<0>>
  /\ investments[2].annual_growth_rate = Null
  /\ sliderValue = 1500
  /\ growthRates[investments[1].id] = 1500
  /\ growthRates[investments[2].id] = 0

====
